---- MODULE Spec2Model ----
(***************************************************************************)
(* Model of the run orchestration engine of jockey:                        *)
(*   src/services/orchestrator.py  (Orchestrator: run store, state         *)
(*                                  machine, merge/dedupe/filter)          *)
(*   src/utils/csv_export.py       (export_investors_to_csv)               *)
(*   src/services/airtable.py, apollo.py, openai_service.py,               *)
(*   google_calendar.py, gmail.py  (collaborators, by their outcomes)      *)
(*   src/main.py                   (POST /orchestrate, GET /runs/{id})     *)
(*                                                                         *)
(* One orchestrate invocation is a process p.  Its position in the code is *)
(* pc[p]; io[p] is its position inside _save_run (open / write / close).   *)
(* The run store is the directory of run files, `files`; a poller reads it *)
(* through get_run at any moment.                                          *)
(***************************************************************************)
EXTENDS Integers, Sequences, FiniteSets, TLC

(********************************* bounds **********************************)
\* The clock (whole seconds, as _now_iso and the export file name see it)
\* runs from 0 to MaxClock.
MaxClock == 1
\* The longest list of records a source reader returns in SpecMerge.
MaxRecords == 2

(************************** Python values ***********************************)
\* Optional[T]: None is the empty tuple, a present value x is <<x>>.
None == <<>>
Some(x) == <<x>>
IsSome(o) == o # <<>>

\* Optional[str] of opaque text (filter fields, project names, ids):
\* Python None is the value NoneStr; "" is the empty string.
NoneStr == "<None>"
\* Python truthiness of an Optional[str].
Truthy(s) == s # NoneStr /\ s # ""

\* Optional[float] (ticket bounds): None is NoneNum, amounts are naturals.
NoneNum == -1

(************************** RunStatus ***************************************)
RunStatus == {"pending", "running", "succeeded", "failed"}
Terminal == {"succeeded", "failed"}

\* The step names, in the order orchestrate's text reaches them.
StepOrder == <<"parse_query", "fetch_airtable", "fetch_apollo", "merge_filter",
               "export_csv", "calendar", "email_draft", "create_project">>
StepNames == {StepOrder[i] : i \in 1..Len(StepOrder)}
StepIndex(s) == CHOOSE i \in 1..Len(StepOrder) : StepOrder[i] = s

(************************** processes ***************************************)
\* The orchestrate invocations; a specification says which of them are invoked.
Procs == {1, 2}
\* A run identifier that is the same for every invocation.
uuid4_Fixed(p) == 1

\* uuid.uuid4(): a fresh identifier per invocation (distinct invocations get
\* distinct identifiers).
uuid4(p) == p
\* The identifiers get_run is asked for: those of the invocations, and one
\* (0) that no run is ever saved under.
RunIds == {uuid4(p) : p \in Procs} \cup {0}

(************************** text ********************************************)
\* The text of a record's name, website and LinkedIn URL is a sequence of
\* characters, so that str.strip() and str.lower() are computed, not assumed.
\* Python None is NoneS; "" is the empty sequence.
NoneS == <<"<None>">>
TruthyS(s) == s # NoneS /\ s # <<>>

LowerChar(c) == CASE c = "X" -> "x"
                  [] c = "Y" -> "y"
                  [] c = "A" -> "a"
                  [] OTHER -> c
\* str.lower()
Lower(s) == [i \in 1..Len(s) |-> LowerChar(s[i])]

RECURSIVE LStrip(_)
LStrip(s) == IF s # <<>> /\ Head(s) = " " THEN LStrip(Tail(s)) ELSE s
RECURSIVE RStrip(_)
RStrip(s) == IF s # <<>> /\ s[Len(s)] = " "
             THEN RStrip(SubSeq(s, 1, Len(s) - 1)) ELSE s
\* str.strip()
Strip(s) == RStrip(LStrip(s))

(************************** records *****************************************)
\* models.schemas.Investor (the fields the engine reads or sets).
Investor(id, name, website, linkedin, tmin, tmax, warm, source) ==
  [id |-> id, name |-> name, website |-> website, linkedin_url |-> linkedin,
   ticket_min |-> tmin, ticket_max |-> tmax, is_warm_lead |-> warm,
   source |-> source]

\* models.schemas.Company (the fields orchestrate copies into an Investor).
Company(id, name, website, linkedin, source) ==
  [id |-> id, name |-> name, website |-> website, linkedin_url |-> linkedin,
   source |-> source]

\* Python's `a or b` on Optional[str] / Optional[float].
OrStr(a, b) == IF Truthy(a) THEN a ELSE b
OrNum(a, b) == IF a # NoneNum /\ a # 0 THEN a ELSE b

(************************** merge / dedupe / filter *************************)
\* key without .strip().
key_NoStrip(inv) ==
  Lower(IF TruthyS(inv.website) THEN inv.website
        ELSE IF TruthyS(inv.linkedin_url) THEN inv.linkedin_url
        ELSE IF TruthyS(inv.name) THEN inv.name
        ELSE <<>>)

\* key without the name as the last fallback.
key_NoName(inv) ==
  Lower(Strip(IF TruthyS(inv.website) THEN inv.website
              ELSE IF TruthyS(inv.linkedin_url) THEN inv.linkedin_url
              ELSE <<>>))

\* _merge_and_dedupe.key
key(inv) ==
  Lower(Strip(IF TruthyS(inv.website) THEN inv.website
              ELSE IF TruthyS(inv.linkedin_url) THEN inv.linkedin_url
              ELSE IF TruthyS(inv.name) THEN inv.name
              ELSE <<>>))

\* MergeLoop without the `if k` tests: the empty key is a key like any other.
RECURSIVE MergeLoop_EmptySeen(_, _, _)
MergeLoop_EmptySeen(rest, seen, merged) ==
  IF rest = <<>> THEN merged
  ELSE LET inv == Head(rest)
           k == key(inv)
       IN IF k \in seen
          THEN MergeLoop_EmptySeen(Tail(rest), seen, merged)
          ELSE MergeLoop_EmptySeen(Tail(rest), seen \cup {k}, Append(merged, inv))

\* MergeLoop without `seen[k] = ...`: no key is ever recorded.
RECURSIVE MergeLoop_NoSeen(_, _, _)
MergeLoop_NoSeen(rest, seen, merged) ==
  IF rest = <<>> THEN merged
  ELSE LET inv == Head(rest)
           k == key(inv)
       IN IF k # <<>> /\ k \in seen
          THEN MergeLoop_NoSeen(Tail(rest), seen, merged)
          ELSE MergeLoop_NoSeen(Tail(rest), seen, Append(merged, inv))

\* MergeLoop with merged.insert(0, inv) in place of merged.append(inv).
RECURSIVE MergeLoop_Prepend(_, _, _)
MergeLoop_Prepend(rest, seen, merged) ==
  IF rest = <<>> THEN merged
  ELSE LET inv == Head(rest)
           k == key(inv)
       IN IF k # <<>> /\ k \in seen
          THEN MergeLoop_Prepend(Tail(rest), seen, merged)
          ELSE MergeLoop_Prepend(Tail(rest),
                                 IF k # <<>> THEN seen \cup {k} ELSE seen,
                                 <<inv>> \o merged)

\* MergeLoop forgetting a key when it drops a duplicate (`del seen[k]`).
RECURSIVE MergeLoop_ForgetOnDrop(_, _, _)
MergeLoop_ForgetOnDrop(rest, seen, merged) ==
  IF rest = <<>> THEN merged
  ELSE LET inv == Head(rest)
           k == key(inv)
       IN IF k # <<>> /\ k \in seen
          THEN MergeLoop_ForgetOnDrop(Tail(rest), seen \ {k}, merged)
          ELSE MergeLoop_ForgetOnDrop(Tail(rest),
                                      IF k # <<>> THEN seen \cup {k} ELSE seen,
                                      Append(merged, inv))

\* The loop of _merge_and_dedupe over airtable_investors + apollo_investors:
\* `seen` is the set of keys of the dict seen, `merged` the list built so far.
RECURSIVE MergeLoop(_, _, _)
MergeLoop(rest, seen, merged) ==
  IF rest = <<>> THEN merged
  ELSE LET inv == Head(rest)
           k == key(inv)
       IN IF k # <<>> /\ k \in seen
          THEN MergeLoop(Tail(rest), seen, merged)
          ELSE MergeLoop(Tail(rest),
                         IF k # <<>> THEN seen \cup {k} ELSE seen,
                         Append(merged, inv))

\* _merge_and_dedupe iterating over apollo_investors + airtable_investors.
_merge_and_dedupe_BFirst(airtable_investors, apollo_investors) ==
  MergeLoop(apollo_investors \o airtable_investors, {}, <<>>)

\* _merge_and_dedupe deduplicating each source list on its own.
_merge_and_dedupe_PerSource(airtable_investors, apollo_investors) ==
  MergeLoop(airtable_investors, {}, <<>>) \o MergeLoop(apollo_investors, {}, <<>>)

_merge_and_dedupe(airtable_investors, apollo_investors) ==
  MergeLoop(airtable_investors \o apollo_investors, {}, <<>>)

\* The values `k = key(inv)` of line 142, one per record processed.
MergeKeys(investors) == [i \in 1..Len(investors) |-> key(investors[i])]

\* models.schemas.TicketSize
TicketSize(minimum, maximum) == [minimum |-> minimum, maximum |-> maximum]

\* `if ts and (ts.minimum or ts.maximum)`: ts is an Optional[TicketSize]; a
\* TicketSize object is truthy, a bound is truthy when it is neither None nor 0.
FilterApplies(ts) ==
  /\ IsSome(ts)
  /\ \/ (ts[1].minimum # NoneNum /\ ts[1].minimum # 0)
     \/ (ts[1].maximum # NoneNum /\ ts[1].maximum # 0)

\* The two `continue` tests of the ticket-size loop.
Excluded(i, t) ==
  \/ (t.minimum # NoneNum /\ i.ticket_max # NoneNum /\ i.ticket_max < t.minimum)
  \/ (t.maximum # NoneNum /\ i.ticket_min # NoneNum /\ i.ticket_min > t.maximum)

\* The ticket-size filter of the merge_filter step.
ApplyTicketFilter(merged, ts) ==
  IF FilterApplies(ts)
  THEN SelectSeq(merged, LAMBDA i : ~Excluded(i, ts[1]))
  ELSE merged

(************************** schemas *****************************************)
\* models.schemas.OrchestrateOptions (max_results only bounds the external
\* reader's answer and is left to that reader).
OrchestrateOptions(dry_run, include_email_draft, include_calendar, create_project) ==
  [dry_run |-> dry_run, include_email_draft |-> include_email_draft,
   include_calendar |-> include_calendar, create_project |-> create_project]

\* models.schemas.ParsedQuery (the fields the engine reads).
ParsedQuery(industry, location, ticket_size, source_project, new_project, investor_type) ==
  [industry |-> industry, location |-> location, ticket_size |-> ticket_size,
   source_project |-> source_project, new_project |-> new_project,
   investor_type |-> investor_type]

\* models.schemas.OrchestrateResult, and OrchestrateResult() with its defaults.
OrchestrateResult(parsed_query, investors, csv_path, email_draft, availability, project_id) ==
  [parsed_query |-> parsed_query, investors |-> investors, csv_path |-> csv_path,
   email_draft |-> email_draft, availability |-> availability,
   project_id |-> project_id]
EmptyResult == OrchestrateResult(None, <<>>, None, None, None, NoneStr)

\* models.schemas.OrchestrateRun
OrchestrateRun(run_id, status, error_message, steps, result, created, updated) ==
  [run_id |-> run_id, status |-> status, error_message |-> error_message,
   steps |-> steps, result |-> result, created_at_iso |-> created,
   updated_at_iso |-> updated]

\* models.schemas.OrchestrateResponse; kind "raised" is no response at all: the
\* exception left orchestrate and reached the caller.
OrchestrateResponse(run_id, status, result, error_message) ==
  [kind |-> "response", run_id |-> run_id, status |-> status, result |-> result,
   error_message |-> error_message]
RaisedToCaller(e) ==
  [kind |-> "raised", run_id |-> 0, status |-> "raised", result |-> None,
   error_message |-> Some(e)]

(************************** the step map ************************************)
\* run.steps is a dict: insertion-ordered, a sequence of [name, status].
StepPos(steps, name) ==
  IF \E i \in 1..Len(steps) : steps[i].name = name
  THEN CHOOSE i \in 1..Len(steps) : steps[i].name = name
  ELSE 0
InSteps(steps, name) == StepPos(steps, name) # 0
StepStatus(steps, name) == steps[StepPos(steps, name)].status
\* run.steps[step] = status
DictSet(steps, name, status) ==
  IF InSteps(steps, name)
  THEN [steps EXCEPT ![StepPos(steps, name)].status = status]
  ELSE Append(steps, [name |-> name, status |-> status])

(************************** run store ***************************************)
\* json.dump(run.model_dump(), f, indent=2): the text written, as the sequence
\* of its tokens in field order.
Serialize(r) ==
  << <<"{">>,
     <<"run_id", r.run_id>>,
     <<"status", r.status>>,
     <<"error_message", r.error_message>>,
     <<"steps", r.steps>>,
     <<"result", r.result>>,
     <<"created_at_iso", r.created_at_iso>>,
     <<"updated_at_iso", r.updated_at_iso>>,
     <<"}">> >>

\* Tokens that reach the file per flush of the write buffer of open(path, "w").
BufSize == 5

\* json.load: a document parses only when it is complete.
Parses(text) == Len(text) = 9 /\ text[1] = <<"{">> /\ text[9] = <<"}">>
\* OrchestrateRun(**data)
Parse(text) ==
  OrchestrateRun(text[2][2], text[3][2], text[4][2], text[5][2], text[6][2],
                 text[7][2], text[8][2])

\* _load_run: None when the file is missing, the run when it parses, and the
\* JSONDecodeError json.load raises otherwise.
_load_run(fs, run_id) ==
  IF run_id \notin DOMAIN fs THEN [kind |-> "None", run |-> None]
  ELSE IF Parses(fs[run_id]) THEN [kind |-> "run", run |-> Some(Parse(fs[run_id]))]
  ELSE [kind |-> "JSONDecodeError", run |-> None]

(************************** collaborators ***********************************)
Collaborators == {"interpreter", "airtable", "apollo", "exporter", "calendar",
                  "drafter", "group_creator"}

\* str(e) of an exception a collaborator raises.
ErrorText(c) == <<c, "failed">>
\* str(e) of the OSError open()/write() raise in _save_run.
SaveErrorText == <<"OSError", "runs/<run_id>.json">>

\* What parse_investor_query returns: the extracted dict (lines 168-186), or
\* the dict {"error": str(e)} of its except clause (lines 188-197).
RawTicket(kind, min, minimum, max, maximum) ==
  [kind |-> kind, min |-> min, minimum |-> minimum, max |-> max, maximum |-> maximum]
NoTicket == RawTicket("absent", NoneNum, NoneNum, NoneNum, NoneNum)
Raw(industry, location, ticket_size, source_project, new_project, investor_type) ==
  [error |-> NoneStr, valid |-> TRUE, industry |-> industry, location |-> location,
   ticket_size |-> ticket_size, source_project |-> source_project,
   new_project |-> new_project, investor_type |-> investor_type]
RawError(e) ==
  [error |-> e, valid |-> TRUE, industry |-> NoneStr, location |-> NoneStr,
   ticket_size |-> NoTicket, source_project |-> NoneStr, new_project |-> NoneStr,
   investor_type |-> NoneStr]

\* The interpreter's answers the model draws from.
RawQueries ==
  \* which of industry / location / investor_type are extracted
  { Raw(c[1], c[2], NoTicket, "ENIGMA", NoneStr, c[3]) :
      c \in { <<NoneStr, NoneStr, NoneStr>>, <<"fintech", NoneStr, NoneStr>>,
              <<NoneStr, "Berlin", NoneStr>>, <<NoneStr, NoneStr, "VC">>,
              <<"", NoneStr, NoneStr>> } }
  \cup
  \* a new project name, and an empty one
  { Raw("fintech", NoneStr, NoTicket, NoneStr, "LONDON", NoneStr),
    Raw(NoneStr, NoneStr, NoTicket, NoneStr, "", NoneStr) }
  \cup
  \* a ticket range
  { Raw("fintech", "Berlin", RawTicket("dict", 2, NoneNum, 5, NoneNum),
        "ENIGMA", NoneStr, NoneStr) }
  \cup
  \* a value ParsedQuery's validation rejects
  { [Raw("fintech", NoneStr, NoTicket, NoneStr, NoneStr, NoneStr)
       EXCEPT !.valid = FALSE] }
  \cup
  \* the except clause's dict; str(e) may be empty
  { RawError("Invalid JSON response"), RawError("") }

\* _to_parsed_query
_to_parsed_query(parsed_raw) ==
  LET t == parsed_raw.ticket_size
      ticket == IF t.kind = "text" THEN None
                ELSE Some(TicketSize(OrNum(t.min, t.minimum), OrNum(t.max, t.maximum)))
  IN ParsedQuery(parsed_raw.industry, parsed_raw.location, ticket,
                 parsed_raw.source_project, parsed_raw.new_project,
                 parsed_raw.investor_type)

\* get_investors_from_project: [] without a project name (line 51); else the
\* records built from the table (lines 73-91, name may be "") or the mock
\* records, and [] when anything in the try block raised (`fails`, line 92).
get_investors_from_project(project_name, table, fails) ==
  IF ~Truthy(project_name) THEN <<>>
  ELSE IF fails THEN <<>>
  ELSE table
\* The tables the model draws from: records as lines 77-89 build them, and
\* mock records with ticket bounds.
AirtableTables ==
  { << Investor("rec1", <<>>, <<"x">>, NoneS, NoneNum, NoneNum, TRUE, "airtable"),
       Investor("mock_airtable_1", <<"b">>, <<"y">>, <<"l">>, 1, 5, TRUE, "airtable"),
       Investor("mock_airtable_2", <<"c">>, <<"z">>, <<"m">>, 6, 9, TRUE, "airtable") >> }

\* search_companies: the companies found, and [] when the API answered with
\* an error status or anything in the try block raised (`fails`, lines 138,
\* 227).
search_companies(companies, fails) ==
  IF fails THEN <<>> ELSE companies
\* The search results the model draws from.
ApolloResults ==
  { << Company("org1", <<"A">>, <<" X">>, NoneS, "apollo"),
       Company("org2", <<"d">>, NoneS, NoneS, NoneStr) >> }

\* What the collaborators may answer in a specification.
World(raws, tables, found, project_ids) ==
  [raws |-> raws, tables |-> tables, found |-> found, project_ids |-> project_ids]

\* orchestrate lines 176-178: mark warm leads.
MarkWarm(inv) ==
  [inv EXCEPT !.is_warm_lead = TRUE, !.source = OrStr(inv.source, "airtable")]
\* FromCompany with is_warm_lead=True.
FromCompany_Warm(company) ==
  Investor(company.id, company.name, company.website, company.linkedin_url,
           NoneNum, NoneNum, TRUE, OrStr(company.source, "apollo"))
\* orchestrate lines 195-207: Company -> Investor.
FromCompany(company) ==
  Investor(company.id, company.name, company.website, company.linkedin_url,
           NoneNum, NoneNum, FALSE, OrStr(company.source, "apollo"))

\* get_availability: three slots for tomorrow, by their starting hour.
Availability == << 9, 13, 17 >>
\* draft_email: the draft, by what its text is rendered from.
draft_email(investors, availability, parsed) ==
  [subject |-> "Investor list and next steps",
   count |-> Len(investors),
   first_five |-> [i \in 1..(IF Len(investors) < 5 THEN Len(investors) ELSE 5)
                     |-> investors[i].name],
   slots |-> IF IsSome(availability) THEN availability[1] ELSE <<>>,
   industry |-> parsed.industry, location |-> parsed.location]
\* create_project: the new record's id, or None when it failed (lines 143, 152).
ProjectIds == {NoneStr, "recProject"}
\* Every answer above.
FullWorld == World(RawQueries, AirtableTables, ApolloResults, ProjectIds)
\* One request that runs every step, and one the interpreter fails on.
SmallWorld ==
  World({ Raw("fintech", NoneStr, NoTicket, "ENIGMA", "LONDON", NoneStr),
          RawError("Invalid JSON response") },
        { << Investor("rec1", <<"a">>, <<"x">>, NoneS, NoneNum, NoneNum, TRUE, "airtable") >> },
        ApolloResults, {"recProject"})

VARIABLES
  pc,        \* pc[p]: position of invocation p in orchestrate
  io,        \* io[p]: position of p inside _save_run, "idle" outside it
  request,   \* request[p]: the OrchestrateRequest's options
  run,       \* run[p]: the in-memory OrchestrateRun, None before _new_run
  loc,       \* loc[p]: orchestrate's locals (parsed, result, lists, e)
  response,  \* response[p]: what orchestrate gave its caller
  files,     \* runs/<run_id>.json: run id -> file content (token sequence)
  exports,   \* exports/investors_<timestamp>.csv: timestamp -> rows
  clock,     \* datetime.utcnow() in whole seconds
  calls,     \* calls[p][c]: how many times p called collaborator c
  marks,     \* marks[p]: the _mark_step calls p made, in order
  before,    \* before[p]: what _load_run gave for p's run when p last entered _save_run
  lastRead   \* what the last get_run returned to the poller

procVars == <<pc, io, request, run, loc, response>>
storeVars == <<files, exports>>
ghostVars == <<calls, marks, before>>
vars == <<pc, io, request, run, loc, response, files, exports, clock,
          calls, marks, before, lastRead>>

(************************** positions in orchestrate ************************)
\* pc[p] is [k, s]: the kind of position and, for a step's positions, the
\* step.  While p is inside _save_run (io[p] # "idle") pc[p] stays at the
\* position that called it.
P(k) == [k |-> k, s |-> "-"]
PS(k, s) == [k |-> k, s |-> s]

\* The in-memory run of p (run[p] is Some(it) once _new_run built it).
R(p) == run[p][1]

\* Positions inside the try block of orchestrate (lines 162-262).
InTry(pcp) == pcp.k \in {"mark_running", "call", "mark_succeeded", "finish"}

\* The test of line 183 without investor_type.
ApolloCriteria_NoType(parsed) ==
  Truthy(parsed.industry) \/ Truthy(parsed.location)

\* line 183: `if parsed.industry or parsed.location or parsed.investor_type`
ApolloCriteria(parsed) ==
  Truthy(parsed.industry) \/ Truthy(parsed.location) \/ Truthy(parsed.investor_type)

\* The test of line 252 without `not request.options.dry_run`.
CreateProjectCond_NoDryRun(options, parsed) ==
  options.create_project /\ Truthy(parsed.new_project)

\* line 252: `if request.options.create_project and not
\* request.options.dry_run and parsed.new_project`
CreateProjectCond(options, parsed) ==
  options.create_project /\ ~options.dry_run /\ Truthy(parsed.new_project)

\* Where control goes after the email_draft block (lines 251-258).
AfterEmailDraft(options, parsed) ==
  IF CreateProjectCond(options, parsed)
  THEN PS("mark_running", "create_project") ELSE P("finish")
\* ... after the calendar block (line 245).
AfterCalendar(options, parsed) ==
  IF options.include_email_draft
  THEN PS("mark_running", "email_draft") ELSE AfterEmailDraft(options, parsed)
\* AfterExport without the test of line 238.
AfterExport_Always(options, parsed) == PS("mark_running", "calendar")

\* ... after the export_csv step (line 238).
AfterExport(options, parsed) ==
  IF options.include_calendar
  THEN PS("mark_running", "calendar") ELSE AfterCalendar(options, parsed)

\* AfterStep with the calendar and email_draft blocks in the other order.
AfterStep_EmailFirst(s, options, parsed) ==
  CASE s = "parse_query" -> PS("mark_running", "fetch_airtable")
    [] s = "fetch_airtable" ->
         IF ApolloCriteria(parsed) THEN PS("mark_running", "fetch_apollo")
         ELSE PS("mark_succeeded", "fetch_apollo")
    [] s = "fetch_apollo" -> PS("mark_running", "merge_filter")
    [] s = "merge_filter" -> PS("mark_running", "export_csv")
    [] s = "export_csv" ->
         IF options.include_email_draft THEN PS("mark_running", "email_draft")
         ELSE AfterExport(options, parsed)
    [] s = "email_draft" ->
         IF options.include_calendar THEN PS("mark_running", "calendar")
         ELSE AfterEmailDraft(options, parsed)
    [] s = "calendar" -> AfterEmailDraft(options, parsed)
    [] s = "create_project" -> P("finish")

\* Where control goes once step s has been marked succeeded.
AfterStep(s, options, parsed) ==
  CASE s = "parse_query" -> PS("mark_running", "fetch_airtable")
    [] s = "fetch_airtable" ->
         IF ApolloCriteria(parsed) THEN PS("mark_running", "fetch_apollo")
         ELSE PS("mark_succeeded", "fetch_apollo")
    [] s = "fetch_apollo" -> PS("mark_running", "merge_filter")
    [] s = "merge_filter" -> PS("mark_running", "export_csv")
    [] s = "export_csv" -> AfterExport(options, parsed)
    [] s = "calendar" -> AfterCalendar(options, parsed)
    [] s = "email_draft" -> AfterEmailDraft(options, parsed)
    [] s = "create_project" -> P("finish")

\* Where control goes when the _save_run called at position pcp returns.
AfterSave(pcp, options, parsed) ==
  CASE pcp.k = "start" -> P("set_running")
    [] pcp.k = "set_running" -> PS("mark_running", "parse_query")
    [] pcp.k = "mark_running" -> PS("call", pcp.s)
    [] pcp.k = "mark_succeeded" -> AfterStep(pcp.s, options, parsed[1])
    [] pcp.k = "finish" -> P("return_ok")
    [] pcp.k = "except" -> P("return_failed")

\* Where an exception raised at position pcp goes: to the except clause of
\* line 264 from inside the try block, to orchestrate's caller from anywhere
\* else (lines 156-158 and the except clause itself, lines 265-269).
Handler(pcp) == IF InTry(pcp) THEN P("except") ELSE P("raised")

\* An exception with text e is raised at p's position, the locals being l.
RaiseWith(p, e, l) ==
  /\ pc' = [pc EXCEPT ![p] = Handler(pc[p])]
  /\ io' = [io EXCEPT ![p] = "idle"]
  /\ IF Handler(pc[p]) = P("except")
     THEN /\ loc' = [l EXCEPT ![p].e = Some(e)]
          /\ response' = response
     ELSE /\ loc' = l
          /\ response' = [response EXCEPT ![p] = RaisedToCaller(e)]

\* An exception with text e is raised at p's position.
Raise(p, e) == RaiseWith(p, e, loc)

\* p calls collaborator c once more.
Called(p, c) == calls' = [calls EXCEPT ![p][c] = @ + 1]

(************************** _save_run ****************************************)
\* p calls _save_run(run); before[p] notes what the run's file held.
EnterSave(p) ==
  /\ io' = [io EXCEPT ![p] = "open"]
  /\ before' = [before EXCEPT ![p] = _load_run(files, uuid4(p))]

\* open(path, "w"): the file exists and is empty from here on.
SaveOpen(p) ==
  /\ io[p] = "open"
  /\ files' = (R(p).run_id :> <<>>) @@ files
  /\ io' = [io EXCEPT ![p] = "write"]
  /\ UNCHANGED <<pc, request, run, loc, response, exports, clock, calls, marks, before, lastRead>>

\* json.dump fills the write buffer; a full buffer is flushed to the file.
SaveFlush(p) ==
  /\ io[p] = "write"
  /\ LET text == Serialize(R(p))
         done == Len(files[R(p).run_id])
     IN /\ Len(text) - done > BufSize
        /\ files' = [files EXCEPT ![R(p).run_id] = SubSeq(text, 1, done + BufSize)]
  /\ UNCHANGED <<pc, io, request, run, loc, response, exports, clock, calls, marks, before, lastRead>>

\* Leaving the with block closes the file: the rest of the text is written
\* and _save_run returns.
SaveClose(p) ==
  /\ io[p] = "write"
  /\ LET text == Serialize(R(p))
     IN /\ Len(text) - Len(files[R(p).run_id]) <= BufSize
        /\ files' = [files EXCEPT ![R(p).run_id] = text]
  /\ io' = [io EXCEPT ![p] = "idle"]
  /\ pc' = [pc EXCEPT ![p] = AfterSave(pc[p], request[p], loc[p].parsed)]
  /\ UNCHANGED <<request, run, loc, response, exports, clock, calls, marks, before, lastRead>>

\* open() or a write fails (disk full, directory gone): OSError.  The file
\* stays as the failed call left it.
SaveFail(p) ==
  /\ io[p] \in {"open", "write"}
  /\ Raise(p, SaveErrorText)
  /\ UNCHANGED <<request, run, files, exports, clock, calls, marks, before, lastRead>>

(************************** orchestrate **************************************)
\* _new_run building the run with status running.
NewRun_StatusRunning(p) ==
  /\ pc[p] = P("start") /\ io[p] = "idle"
  /\ \E created \in clock..MaxClock : \E updated \in created..MaxClock :
       /\ run' = [run EXCEPT ![p] =
                    Some(OrchestrateRun(uuid4(p), "running", None, <<>>, None,
                                        created, updated))]
       /\ clock' = updated
  /\ EnterSave(p)
  /\ loc' = [loc EXCEPT ![p].statuses = Append(@, "running")]
  /\ UNCHANGED <<pc, request, response, files, exports, calls, marks, lastRead>>

\* line 156, _new_run: build the pending run and call _save_run.
NewRun(p) ==
  /\ pc[p] = P("start") /\ io[p] = "idle"
  /\ \E created \in clock..MaxClock : \E updated \in created..MaxClock :
       /\ run' = [run EXCEPT ![p] =
                    Some(OrchestrateRun(uuid4(p), "pending", None, <<>>, None,
                                        created, updated))]
       /\ clock' = updated
  /\ EnterSave(p)
  /\ loc' = [loc EXCEPT ![p].statuses = Append(@, "pending")]
  /\ UNCHANGED <<pc, request, response, files, exports, calls, marks, lastRead>>

\* lines 157-158: run.status = running; _save_run(run).
SetRunning(p) ==
  /\ pc[p] = P("set_running") /\ io[p] = "idle"
  /\ run' = [run EXCEPT ![p] = Some([R(p) EXCEPT !.status = "running"])]
  /\ EnterSave(p)
  /\ loc' = [loc EXCEPT ![p].statuses = Append(@, "running")]
  /\ UNCHANGED <<pc, request, response, files, exports, clock, calls, marks, lastRead>>

\* _mark_step stamping created_at_iso in place of updated_at_iso.
_mark_step_StampsCreated(p, step, status) ==
  /\ \E now \in clock..MaxClock :
       /\ run' = [run EXCEPT ![p] =
                    Some([R(p) EXCEPT !.steps = DictSet(@, step, status),
                                      !.created_at_iso = now])]
       /\ clock' = now
  /\ marks' = [marks EXCEPT ![p] = Append(@, <<step, status>>)]
  /\ EnterSave(p)

\* _mark_step(run, step, status): set the step, stamp the run, call _save_run.
_mark_step(p, step, status) ==
  /\ \E now \in clock..MaxClock :
       /\ run' = [run EXCEPT ![p] =
                    Some([R(p) EXCEPT !.steps = DictSet(@, step, status),
                                      !.updated_at_iso = now])]
       /\ clock' = now
  /\ marks' = [marks EXCEPT ![p] = Append(@, <<step, status>>)]
  /\ EnterSave(p)

MarkRunning(p) ==
  /\ pc[p].k = "mark_running" /\ io[p] = "idle"
  /\ _mark_step(p, pc[p].s, "running")
  /\ UNCHANGED <<pc, request, loc, response, files, exports, calls, lastRead>>

\* MarkSucceeded writing RunStatus.running once more.
MarkSucceeded_AsRunning(p) ==
  /\ pc[p].k = "mark_succeeded" /\ io[p] = "idle"
  /\ _mark_step(p, pc[p].s, "running")
  /\ UNCHANGED <<pc, request, loc, response, files, exports, calls, lastRead>>

MarkSucceeded(p) ==
  /\ pc[p].k = "mark_succeeded" /\ io[p] = "idle"
  /\ _mark_step(p, pc[p].s, "succeeded")
  /\ UNCHANGED <<pc, request, loc, response, files, exports, calls, lastRead>>

\* The locals of orchestrate that outlive a step: parsed_raw, parsed, result
\* (line 160), the two record lists, availability, and the exception e being
\* handled; keys is the list of the values k of line 142, in the order
\* _merge_and_dedupe computed them, merged the list of line 215 (before the
\* ticket filter), project_id what create_project returned (line 254), failed
\* the readers whose except clause or error-status test answered for them,
\* statuses the values run.status was given, in order.
NoLocals ==
  [parsed_raw |-> None, parsed |-> None, result |-> EmptyResult,
   airtable_investors |-> <<>>, apollo_investors |-> <<>>, keys |-> <<>>,
   merged |-> <<>>, availability |-> None, project_id |-> None, failed |-> {},
   statuses |-> <<>>, e |-> None]

\* A step's body ends: control reaches its _mark_step(..., succeeded).
StepDone(p) ==
  /\ pc' = [pc EXCEPT ![p] = PS("mark_succeeded", pc[p].s)]
  /\ UNCHANGED <<io, response>>

\* lines 165-169: parse_query.
CallParse(p, w) ==
  /\ pc[p] = PS("call", "parse_query")
  /\ Called(p, "interpreter")
  /\ \/ Raise(p, ErrorText("interpreter"))
     \/ \E parsed_raw \in w.raws :
          IF Truthy(parsed_raw.error)
          THEN RaiseWith(p, <<"Parse error: ", parsed_raw.error>>,
                         [loc EXCEPT ![p].parsed_raw = Some(parsed_raw)])
          ELSE IF ~parsed_raw.valid
          THEN RaiseWith(p, <<"ValidationError", "ParsedQuery">>,
                         [loc EXCEPT ![p].parsed_raw = Some(parsed_raw)])
          ELSE /\ loc' = [loc EXCEPT
                            ![p].parsed_raw = Some(parsed_raw),
                            ![p].parsed = Some(_to_parsed_query(parsed_raw)),
                            ![p].result.parsed_query = Some(_to_parsed_query(parsed_raw))]
               /\ StepDone(p)
  /\ UNCHANGED <<request, run, files, exports, clock, marks, before, lastRead>>

\* The reader r failed internally in p's call, if `fails`.
NoteFailure(p, r, fails) ==
  IF fails THEN loc[p].failed \cup {r} ELSE loc[p].failed

\* CallAirtable with a reader that has no except clause.
CallAirtable_NoCatch(p, w) ==
  /\ pc[p] = PS("call", "fetch_airtable")
  /\ Called(p, "airtable")
  /\ \/ Raise(p, ErrorText("airtable"))
     \/ \E table \in w.tables, fails \in BOOLEAN :
          LET project_name == loc[p].parsed[1].source_project
              found == get_investors_from_project(project_name, table, fails)
              failed == NoteFailure(p, "airtable", fails /\ Truthy(project_name))
          IN IF fails /\ Truthy(project_name)
             THEN RaiseWith(p, ErrorText("airtable"), [loc EXCEPT ![p].failed = failed])
             ELSE /\ loc' = [loc EXCEPT
                               ![p].airtable_investors =
                                 [i \in 1..Len(found) |-> MarkWarm(found[i])],
                               ![p].failed = failed]
                  /\ StepDone(p)
  /\ UNCHANGED <<request, run, files, exports, clock, marks, before, lastRead>>

\* lines 174-178: fetch_airtable.  The first branch is an exception leaving
\* the call; a failure inside the reader's try block is its answer [].
CallAirtable(p, w) ==
  /\ pc[p] = PS("call", "fetch_airtable")
  /\ Called(p, "airtable")
  /\ \/ Raise(p, ErrorText("airtable"))
     \/ \E table \in w.tables, fails \in BOOLEAN :
          LET project_name == loc[p].parsed[1].source_project
              found == get_investors_from_project(project_name, table, fails)
          IN /\ loc' = [loc EXCEPT
                          ![p].airtable_investors =
                            [i \in 1..Len(found) |-> MarkWarm(found[i])],
                          ![p].failed =
                            NoteFailure(p, "airtable", fails /\ Truthy(project_name))]
             /\ StepDone(p)
  /\ UNCHANGED <<request, run, files, exports, clock, marks, before, lastRead>>

\* lines 186-208: fetch_apollo, when there are search criteria.
CallApollo(p, w) ==
  /\ pc[p] = PS("call", "fetch_apollo")
  /\ Called(p, "apollo")
  /\ \/ Raise(p, ErrorText("apollo"))
     \/ \E companies \in w.found, fails \in BOOLEAN :
          LET apollo_companies == search_companies(companies, fails)
          IN /\ loc' = [loc EXCEPT
                          ![p].apollo_investors =
                            [i \in 1..Len(apollo_companies) |->
                               FromCompany(apollo_companies[i])],
                          ![p].failed = NoteFailure(p, "apollo", fails)]
             /\ StepDone(p)
  /\ UNCHANGED <<request, run, files, exports, clock, marks, before, lastRead>>

\* MergeFilter with the dict `seen` kept on the Orchestrator instance, which
\* main.py shares between requests: keys other invocations merged are seen.
MergeFilter_SharedSeen(p) ==
  /\ pc[p] = PS("call", "merge_filter")
  /\ LET seen == UNION { { key(loc[q].merged[i]) : i \in 1..Len(loc[q].merged) } :
                           q \in Procs \ {p} } \ {<<>>}
         merged == MergeLoop(loc[p].airtable_investors \o loc[p].apollo_investors,
                             seen, <<>>)
     IN loc' = [loc EXCEPT
                  ![p].result.investors =
                    ApplyTicketFilter(merged, loc[p].parsed[1].ticket_size),
                  ![p].merged = merged,
                  ![p].keys = MergeKeys(loc[p].airtable_investors \o loc[p].apollo_investors)]
  /\ StepDone(p)
  /\ UNCHANGED <<request, run, files, exports, clock, calls, marks, before, lastRead>>

\* MergeFilter with the range filter applied to each list before the merge.
MergeFilter_FilterFirst(p) ==
  /\ pc[p] = PS("call", "merge_filter")
  /\ LET ts == loc[p].parsed[1].ticket_size
         merged == _merge_and_dedupe(ApplyTicketFilter(loc[p].airtable_investors, ts),
                                     ApplyTicketFilter(loc[p].apollo_investors, ts))
     IN loc' = [loc EXCEPT
                  ![p].result.investors = merged,
                  ![p].merged = merged,
                  ![p].keys = MergeKeys(loc[p].airtable_investors \o loc[p].apollo_investors)]
  /\ StepDone(p)
  /\ UNCHANGED <<request, run, files, exports, clock, calls, marks, before, lastRead>>

\* lines 215-227: merge_filter (no collaborator).
MergeFilter(p) ==
  /\ pc[p] = PS("call", "merge_filter")
  /\ loc' = [loc EXCEPT
               ![p].result.investors =
                 ApplyTicketFilter(
                   _merge_and_dedupe(loc[p].airtable_investors, loc[p].apollo_investors),
                   loc[p].parsed[1].ticket_size),
               ![p].merged =
                 _merge_and_dedupe(loc[p].airtable_investors, loc[p].apollo_investors),
               ![p].keys = MergeKeys(loc[p].airtable_investors \o loc[p].apollo_investors)]
  /\ StepDone(p)
  /\ UNCHANGED <<request, run, files, exports, clock, calls, marks, before, lastRead>>

\* export_investors_to_csv: the file investors_<timestamp>.csv is opened for
\* writing and receives one row per investor; its path is returned.
export_investors_to_csv(investors, timestamp) ==
  /\ exports' = (timestamp :> investors) @@ exports
  /\ clock' = timestamp

\* lines 232-233: export_csv.
CallExport(p) ==
  /\ pc[p] = PS("call", "export_csv")
  /\ Called(p, "exporter")
  /\ \/ /\ Raise(p, ErrorText("exporter"))
        /\ UNCHANGED <<exports, clock>>
     \/ \E timestamp \in clock..MaxClock :
          /\ export_investors_to_csv(loc[p].result.investors, timestamp)
          /\ loc' = [loc EXCEPT ![p].result.csv_path = Some(timestamp)]
          /\ StepDone(p)
  /\ UNCHANGED <<request, run, files, marks, before, lastRead>>

\* CallCalendar without `result.availability = availability` (line 241).
CallCalendar_NoResult(p) ==
  /\ pc[p] = PS("call", "calendar")
  /\ Called(p, "calendar")
  /\ \/ Raise(p, ErrorText("calendar"))
     \/ /\ loc' = [loc EXCEPT ![p].availability = Some(Availability)]
        /\ StepDone(p)
  /\ UNCHANGED <<request, run, files, exports, clock, marks, before, lastRead>>

\* lines 240-241: calendar.
CallCalendar(p) ==
  /\ pc[p] = PS("call", "calendar")
  /\ Called(p, "calendar")
  /\ \/ Raise(p, ErrorText("calendar"))
     \/ /\ loc' = [loc EXCEPT ![p].availability = Some(Availability),
                              ![p].result.availability = Some(Availability)]
        /\ StepDone(p)
  /\ UNCHANGED <<request, run, files, exports, clock, marks, before, lastRead>>

\* lines 247-248: email_draft.
CallDraft(p) ==
  /\ pc[p] = PS("call", "email_draft")
  /\ Called(p, "drafter")
  /\ \/ Raise(p, ErrorText("drafter"))
     \/ /\ loc' = [loc EXCEPT ![p].result.email_draft =
                     Some(draft_email(loc[p].result.investors, loc[p].availability,
                                      loc[p].parsed[1]))]
        /\ StepDone(p)
  /\ UNCHANGED <<request, run, files, exports, clock, marks, before, lastRead>>

\* CallCreateProject raising when create_project returned None.
CallCreateProject_RaiseOnNone(p, w) ==
  /\ pc[p] = PS("call", "create_project")
  /\ Called(p, "group_creator")
  /\ \/ Raise(p, ErrorText("group_creator"))
     \/ \E project_id \in w.project_ids :
          IF project_id = NoneStr
          THEN RaiseWith(p, ErrorText("group_creator"),
                         [loc EXCEPT ![p].project_id = Some(project_id)])
          ELSE /\ loc' = [loc EXCEPT ![p].project_id = Some(project_id),
                                     ![p].result.project_id = project_id]
               /\ StepDone(p)
  /\ UNCHANGED <<request, run, files, exports, clock, marks, before, lastRead>>

\* lines 254-255: create_project.
CallCreateProject(p, w) ==
  /\ pc[p] = PS("call", "create_project")
  /\ Called(p, "group_creator")
  /\ \/ Raise(p, ErrorText("group_creator"))
     \/ \E project_id \in w.project_ids :
          /\ loc' = [loc EXCEPT ![p].project_id = Some(project_id),
                                ![p].result.project_id = project_id]
          /\ StepDone(p)
  /\ UNCHANGED <<request, run, files, exports, clock, marks, before, lastRead>>

\* Finish without the _save_run of line 261.
Finish_NoSave(p) ==
  /\ pc[p] = P("finish") /\ io[p] = "idle"
  /\ \E now \in clock..MaxClock :
       /\ run' = [run EXCEPT ![p] =
                    Some([R(p) EXCEPT !.status = "succeeded",
                                      !.result = Some(loc[p].result),
                                      !.updated_at_iso = now])]
       /\ clock' = now
  /\ pc' = [pc EXCEPT ![p] = P("return_ok")]
  /\ loc' = [loc EXCEPT ![p].statuses = Append(@, "succeeded")]
  /\ UNCHANGED <<io, before, request, response, files, exports, calls, marks, lastRead>>

\* lines 258-261: the run succeeded; store the result and save.
Finish(p) ==
  /\ pc[p] = P("finish") /\ io[p] = "idle"
  /\ \E now \in clock..MaxClock :
       /\ run' = [run EXCEPT ![p] =
                    Some([R(p) EXCEPT !.status = "succeeded",
                                      !.result = Some(loc[p].result),
                                      !.updated_at_iso = now])]
       /\ clock' = now
  /\ EnterSave(p)
  /\ loc' = [loc EXCEPT ![p].statuses = Append(@, "succeeded")]
  /\ UNCHANGED <<pc, request, response, files, exports, calls, marks, lastRead>>

\* line 262: return the response of a succeeded run.
ReturnSucceeded(p) ==
  /\ pc[p] = P("return_ok")
  /\ response' = [response EXCEPT ![p] =
                    OrchestrateResponse(R(p).run_id, R(p).status, Some(loc[p].result), None)]
  /\ pc' = [pc EXCEPT ![p] = P("done")]
  /\ UNCHANGED <<io, request, run, loc, files, exports, clock, calls, marks, before, lastRead>>

\* Except without `run.status = RunStatus.failed`.
Except_KeepsStatus(p) ==
  /\ pc[p] = P("except") /\ io[p] = "idle"
  /\ \E now \in clock..MaxClock :
       /\ run' = [run EXCEPT ![p] =
                    Some([R(p) EXCEPT !.error_message = loc[p].e,
                                      !.updated_at_iso = now])]
       /\ clock' = now
  /\ EnterSave(p)
  /\ UNCHANGED <<pc, request, loc, response, files, exports, calls, marks, lastRead>>

\* Except rolling the step map back.
Except_RollsBack(p) ==
  /\ pc[p] = P("except") /\ io[p] = "idle"
  /\ \E now \in clock..MaxClock :
       /\ run' = [run EXCEPT ![p] =
                    Some([R(p) EXCEPT !.status = "failed",
                                      !.steps = <<>>,
                                      !.error_message = loc[p].e,
                                      !.updated_at_iso = now])]
       /\ clock' = now
  /\ EnterSave(p)
  /\ loc' = [loc EXCEPT ![p].statuses = Append(@, "failed")]
  /\ UNCHANGED <<pc, request, response, files, exports, calls, marks, lastRead>>

\* Except recording the step that was running as failed.
Except_MarksStepFailed(p) ==
  /\ pc[p] = P("except") /\ io[p] = "idle"
  /\ \E now \in clock..MaxClock :
       /\ run' = [run EXCEPT ![p] =
                    Some([R(p) EXCEPT !.status = "failed",
                                      !.steps = [i \in 1..Len(@) |->
                                                   IF @[i].status = "running"
                                                   THEN [@[i] EXCEPT !.status = "failed"]
                                                   ELSE @[i]],
                                      !.error_message = loc[p].e,
                                      !.updated_at_iso = now])]
       /\ clock' = now
  /\ EnterSave(p)
  /\ loc' = [loc EXCEPT ![p].statuses = Append(@, "failed")]
  /\ UNCHANGED <<pc, request, response, files, exports, calls, marks, lastRead>>

\* Except putting the run back to pending.
Except_Requeues(p) ==
  /\ pc[p] = P("except") /\ io[p] = "idle"
  /\ \E now \in clock..MaxClock :
       /\ run' = [run EXCEPT ![p] =
                    Some([R(p) EXCEPT !.status = "pending",
                                      !.error_message = loc[p].e,
                                      !.updated_at_iso = now])]
       /\ clock' = now
  /\ EnterSave(p)
  /\ loc' = [loc EXCEPT ![p].statuses = Append(@, "pending")]
  /\ UNCHANGED <<pc, request, response, files, exports, calls, marks, lastRead>>

\* lines 264-268: except Exception as e: the run failed; save it.
Except(p) ==
  /\ pc[p] = P("except") /\ io[p] = "idle"
  /\ \E now \in clock..MaxClock :
       /\ run' = [run EXCEPT ![p] =
                    Some([R(p) EXCEPT !.status = "failed",
                                      !.error_message = loc[p].e,
                                      !.updated_at_iso = now])]
       /\ clock' = now
  /\ EnterSave(p)
  /\ loc' = [loc EXCEPT ![p].statuses = Append(@, "failed")]
  /\ UNCHANGED <<pc, request, response, files, exports, calls, marks, lastRead>>

\* line 269: return the response of a failed run.
ReturnFailed(p) ==
  /\ pc[p] = P("return_failed")
  /\ response' = [response EXCEPT ![p] =
                    OrchestrateResponse(R(p).run_id, R(p).status, None, loc[p].e)]
  /\ pc' = [pc EXCEPT ![p] = P("done")]
  /\ UNCHANGED <<io, request, run, loc, files, exports, clock, calls, marks, before, lastRead>>

(************************** get_run, interruption ***************************)
\* GetRun with _load_run opening the file with mode "w+": the file is emptied
\* before it is read.
GetRun_OpenForWriting(run_id) ==
  /\ files' = IF run_id \in DOMAIN files THEN [files EXCEPT ![run_id] = <<>>] ELSE files
  /\ lastRead' = [run_id |-> run_id, got |-> _load_run(files', run_id)]
  /\ UNCHANGED <<pc, io, request, run, loc, response, exports, clock, calls, marks, before>>

\* GET /runs/{run_id}: Orchestrator.get_run -> _load_run; what the poller gets.
GetRun(run_id) ==
  /\ lastRead' = [run_id |-> run_id, got |-> _load_run(files, run_id)]
  /\ UNCHANGED <<pc, io, request, run, loc, response, files, exports, clock, calls, marks, before>>

\* Invocations that have not come to an end.
Live == {p \in Procs : pc[p].k \notin {"idle", "done", "raised", "crashed"}}

\* The process is interrupted (killed, power loss): every invocation under
\* way stops where it is, one inside _save_run is "interrupted" there; the
\* files stay as they are.
Crash ==
  /\ Live # {}
  /\ pc' = [p \in Procs |-> IF p \in Live THEN P("crashed") ELSE pc[p]]
  /\ io' = [p \in Procs |-> IF io[p] = "idle" THEN "idle" ELSE "interrupted"]
  /\ UNCHANGED <<request, run, loc, response, files, exports, clock, calls, marks, before, lastRead>>

(************************** specifications **********************************)
Options ==
  { OrchestrateOptions(d, e, c, g) : d \in BOOLEAN, e \in BOOLEAN, c \in BOOLEAN,
                                     g \in BOOLEAN }
\* OrchestrateOptions(): the defaults of models.schemas (lines 159-163).
DefaultOptions == OrchestrateOptions(TRUE, TRUE, TRUE, TRUE)

\* The state when the invocations in `invoked` enter orchestrate with one of
\* `options`, at time `now`.
InitWith(invoked, options, now) ==
  /\ pc = [p \in Procs |-> IF p \in invoked THEN P("start") ELSE P("idle")]
  /\ io = [p \in Procs |-> "idle"]
  /\ request \in [Procs -> options \cup {DefaultOptions}]
  /\ \A p \in invoked : request[p] \in options
  /\ \A p \in Procs \ invoked : request[p] = DefaultOptions
  /\ run = [p \in Procs |-> None]
  /\ loc = [p \in Procs |-> NoLocals]
  /\ response = [p \in Procs |-> [kind |-> "none", run_id |-> 0, status |-> "none",
                                  result |-> None, error_message |-> None]]
  /\ files = <<>>
  /\ exports = <<>>
  /\ clock = now
  /\ calls = [p \in Procs |-> [c \in Collaborators |-> 0]]
  /\ marks = [p \in Procs |-> <<>>]
  /\ before = [p \in Procs |-> _load_run(<<>>, uuid4(p))]
  /\ lastRead = [run_id |-> 0, got |-> [kind |-> "nothing", run |-> None]]

\* One step of invocation p, the collaborators answering from w.
Orchestrate(p, w) ==
  \/ NewRun(p) \/ SetRunning(p) \/ MarkRunning(p) \/ MarkSucceeded(p)
  \/ SaveOpen(p) \/ SaveFlush(p) \/ SaveClose(p) \/ SaveFail(p)
  \/ CallParse(p, w) \/ CallAirtable(p, w) \/ CallApollo(p, w) \/ MergeFilter(p)
  \/ CallExport(p) \/ CallCalendar(p) \/ CallDraft(p) \/ CallCreateProject(p, w)
  \/ Finish(p) \/ ReturnSucceeded(p) \/ Except(p) \/ ReturnFailed(p)

\* One invocation of orchestrate, alone, with any options and any answers
\* of the collaborators, the run store failing at any write; the whole run
\* falls within one second of the clock.
Init == InitWith({1}, Options, MaxClock)
Next == \E p \in Procs : Orchestrate(p, FullWorld)
Spec == Init /\ [][Next]_vars

\* One invocation that runs every step, and a poller calling get_run at any
\* moment.
InitStore == InitWith({1}, {OrchestrateOptions(FALSE, TRUE, TRUE, TRUE)}, 0)
NextStore ==
  \/ \E p \in Procs : Orchestrate(p, SmallWorld)
  \/ \E run_id \in RunIds : GetRun(run_id)
SpecStore == InitStore /\ [][NextStore]_vars

\* One invocation with any options, the clock advancing during the run.
InitTimed == InitWith({1}, Options, 0)
NextTimed == \E p \in Procs : Orchestrate(p, SmallWorld)
SpecTimed == InitTimed /\ [][NextTimed]_vars

\* One invocation, and the process being interrupted at any moment.
NextCrash ==
  \/ \E p \in Procs : Orchestrate(p, SmallWorld)
  \/ Crash
SpecCrash == InitStore /\ [][NextCrash]_vars

\* The lists of at most n elements of S.
ListsUpTo(S, n) == UNION { [1..k -> S] : k \in 0..n }

\* The name, website and LinkedIn URL of the records SpecMerge draws from:
\* websites that differ in case and surrounding blanks only, an empty and a
\* blank website, records with a URL only, with a name only, with no name.
RecordTexts ==
  { [name |-> <<"b">>, website |-> <<"x">>, linkedin_url |-> NoneS],
    [name |-> <<"c">>, website |-> <<" ", "X">>, linkedin_url |-> <<"y">>],
    [name |-> <<"d">>, website |-> <<>>, linkedin_url |-> <<"Y", " ">>],
    [name |-> <<"A", "c", "m", "e">>, website |-> NoneS, linkedin_url |-> NoneS],
    [name |-> <<>>, website |-> NoneS, linkedin_url |-> NoneS],
    [name |-> <<"A", "c", "m", "e">>, website |-> <<" ">>, linkedin_url |-> <<"y">>] }

\* What get_investors_from_project builds from a table row (lines 75-89).
AirtableRecord(t) ==
  Investor("rec", t.name, t.website, t.linkedin_url, NoneNum, NoneNum, TRUE, "airtable")
\* What search_companies builds from an organization (apollo.py lines 198-219).
ApolloCompany(t) == Company("org", t.name, t.website, t.linkedin_url, "apollo")

\* One invocation that runs every step and is never terminated: the thread
\* running orchestrate takes its next step as long as it has one (a
\* collaborator call returns or raises, a write completes or fails).
SpecLive == InitStore /\ [][NextTimed]_vars /\ WF_vars(NextTimed)

\* Two invocations of orchestrate under way at once (FastAPI runs the sync
\* endpoint of main.py lines 48-56 in a thread pool), each with the options
\* that run every step, the run store accepting every write; the readers
\* answer or fail, and any collaborator may raise.
PairWorld ==
  World({ Raw("fintech", NoneStr, NoTicket, "ENIGMA", "LONDON", NoneStr) },
        { << Investor("rec1", <<"a">>, <<"x">>, NoneS, NoneNum, NoneNum, TRUE, "airtable") >> },
        { << Company("org1", <<"A">>, <<" X">>, NoneS, "apollo") >> },
        {"recProject"})
OrchestrateStoreUp(p, w) ==
  \/ NewRun(p) \/ SetRunning(p) \/ MarkRunning(p) \/ MarkSucceeded(p)
  \/ SaveOpen(p) \/ SaveFlush(p) \/ SaveClose(p)
  \/ CallParse(p, w) \/ CallAirtable(p, w) \/ CallApollo(p, w) \/ MergeFilter(p)
  \/ CallExport(p) \/ CallCalendar(p) \/ CallDraft(p) \/ CallCreateProject(p, w)
  \/ Finish(p) \/ ReturnSucceeded(p) \/ Except(p) \/ ReturnFailed(p)
InitPair == InitWith(Procs, {OrchestrateOptions(FALSE, TRUE, TRUE, TRUE)}, MaxClock)
NextPair == \E p \in Procs : OrchestrateStoreUp(p, PairWorld)
SpecPair == InitPair /\ [][NextPair]_vars

\* The step map, and the _mark_step calls made, when control is in the body
\* of the merge_filter step of a run whose external reader was called.
StepsBeforeMerge ==
  << [name |-> "parse_query", status |-> "succeeded"],
     [name |-> "fetch_airtable", status |-> "succeeded"],
     [name |-> "fetch_apollo", status |-> "succeeded"] >>
StepsAtMerge == Append(StepsBeforeMerge, [name |-> "merge_filter", status |-> "running"])
MarksAtMerge ==
  << <<"parse_query", "running">>, <<"parse_query", "succeeded">>,
     <<"fetch_airtable", "running">>, <<"fetch_airtable", "succeeded">>,
     <<"fetch_apollo", "running">>, <<"fetch_apollo", "succeeded">>,
     <<"merge_filter", "running">> >>

\* The state of invocation 1 at line 215, the internal reader having returned
\* the investors `found`, the external reader the companies `companies`, and
\* the interpreter parsed_raw.
InitAtMergeOf(parsed_raw, found, companies) ==
  LET r == OrchestrateRun(uuid4(1), "running", None, StepsAtMerge, None, MaxClock, MaxClock)
      parsed == _to_parsed_query(parsed_raw)
  IN /\ pc = [p \in Procs |-> IF p = 1 THEN PS("call", "merge_filter") ELSE P("idle")]
     /\ io = [p \in Procs |-> "idle"]
     /\ request = [p \in Procs |-> DefaultOptions]
     /\ run = [p \in Procs |-> IF p = 1 THEN Some(r) ELSE None]
     /\ loc = [p \in Procs |->
                IF p = 1
                THEN [NoLocals EXCEPT
                        !.parsed_raw = Some(parsed_raw),
                        !.parsed = Some(parsed),
                        !.result.parsed_query = Some(parsed),
                        !.statuses = <<"pending", "running">>,
                        !.airtable_investors =
                           [i \in 1..Len(found) |-> MarkWarm(found[i])],
                        !.apollo_investors =
                           [i \in 1..Len(companies) |-> FromCompany(companies[i])]]
                ELSE NoLocals]
     /\ response = [p \in Procs |-> [kind |-> "none", run_id |-> 0, status |-> "none",
                                     result |-> None, error_message |-> None]]
     /\ files = (uuid4(1) :> Serialize(r))
     /\ exports = <<>>
     /\ clock = MaxClock
     /\ calls = [p \in Procs |-> [c \in Collaborators |->
                  IF p = 1 /\ c \in {"interpreter", "airtable", "apollo"} THEN 1 ELSE 0]]
     /\ marks = [p \in Procs |-> IF p = 1 THEN MarksAtMerge ELSE <<>>]
     /\ before = [p \in Procs |->
                   IF p = 1
                   THEN [kind |-> "run",
                         run |-> Some([r EXCEPT !.steps = StepsBeforeMerge])]
                   ELSE _load_run(<<>>, uuid4(p))]
     /\ lastRead = [run_id |-> 0, got |-> [kind |-> "nothing", run |-> None]]

\* The same, the readers having built their answers from the rows and the
\* organizations `rows` and `orgs`.
InitAtMerge(parsed_raw, rows, orgs) ==
  InitAtMergeOf(parsed_raw,
                [i \in 1..Len(rows) |-> AirtableRecord(rows[i])],
                [i \in 1..Len(orgs) |-> ApolloCompany(orgs[i])])

\* _merge_and_dedupe applied to any two lists of at most MaxRecords records,
\* in a run without a ticket range.
InitMerge ==
  \E rows \in ListsUpTo(RecordTexts, MaxRecords) :
    \E orgs \in ListsUpTo(RecordTexts, MaxRecords) :
      InitAtMerge(Raw("fintech", NoneStr, NoTicket, "ENIGMA", NoneStr, NoneStr), rows, orgs)
NextMerge == \E p \in Procs : MergeFilter(p)
SpecMerge == InitMerge /\ [][NextMerge]_vars

\* The merge_filter step of a run whose interpreter extracted a ticket range.
\* Records with ticket bounds, as _generate_mock_investors builds them
\* (airtable.py lines 95-139), and one without, as lines 77-89 build it.
TicketRecords ==
  { Investor("rec", <<"a">>, NoneS, NoneS, NoneNum, NoneNum, TRUE, "airtable"),
    Investor("mock_airtable_1", <<"b">>, NoneS, NoneS, 1, 1, TRUE, "airtable"),
    Investor("mock_airtable_2", <<"c">>, NoneS, NoneS, 4, 5, TRUE, "airtable"),
    Investor("mock_airtable_3", <<"d">>, NoneS, NoneS, 2, 3, TRUE, "airtable") }
\* The ticket_size values of the interpreter's answer: no ticket_size, a text,
\* a dict keyed min/max, a dict keyed minimum/maximum.
RawTickets ==
  { NoTicket, RawTicket("text", NoneNum, NoneNum, NoneNum, NoneNum) }
  \cup { RawTicket("dict", lo, NoneNum, hi, NoneNum) :
            lo \in {NoneNum, 0, 2}, hi \in {NoneNum, 0, 3} }
  \cup { RawTicket("dict", NoneNum, lo, NoneNum, hi) :
            lo \in {NoneNum, 0, 2}, hi \in {NoneNum, 0, 3} }
\* What the external reader found: nothing, or one company, of the name of
\* an internal record or of another name.
TicketCompanies ==
  { Company("org1", <<"b">>, NoneS, NoneS, "apollo"),
    Company("org2", <<"e">>, NoneS, NoneS, "apollo") }
InitFilter ==
  \E t \in RawTickets :
    \E found \in ListsUpTo(TicketRecords, MaxRecords) :
      \E companies \in {<<>>} \cup {<<c>> : c \in TicketCompanies} :
        InitAtMergeOf(Raw("fintech", "Berlin", t, "ENIGMA", NoneStr, NoneStr),
                      found, companies)
SpecFilter == InitFilter /\ [][NextMerge]_vars

(************************** properties **************************************)
\* What _load_run gives for p's run now, and what it gives when the file
\* holds the whole of the in-memory run.
Persisted(p) == _load_run(files, uuid4(p))
InMemory(p) == [kind |-> "run", run |-> Some(R(p))]

\* orchestrate returned a response to its caller / let an exception out.
Returned(p) == pc[p] = P("done")
Escaped(p) == pc[p] = P("raised")

\* An exception was raised in a step of p by something other than the run
\* store: a collaborator, or orchestrate on the collaborator's answer.
StepRaised(p) == IsSome(loc[p].e) /\ loc[p].e[1] # SaveErrorText
\* A write of the run store failed in p.
StoreFailed(p) ==
  \/ loc[p].e = Some(SaveErrorText)
  \/ response[p] = RaisedToCaller(SaveErrorText)

\* C1: whenever orchestrate has returned, the status in the response and the
\* status of the persisted run record are both succeeded or failed, never
\* pending or running.
C1_TerminalOnReturn ==
  \A p \in Procs :
    Returned(p) =>
      /\ response[p].kind = "response"
      /\ response[p].status \in Terminal
      /\ Persisted(p).kind = "run"
      /\ Persisted(p).run[1].status \in Terminal
      /\ Persisted(p).run[1].status = response[p].status

\* orchestrate returned after a write of the run store failed inside a step.
C1_Witness ==
  \E p \in Procs :
    /\ Returned(p) /\ loc[p].e = Some(SaveErrorText)
    /\ response[p].status = "failed"
    /\ InSteps(R(p).steps, "export_csv")

\* C2: if a collaborator call in a step raises, orchestrate does not raise to
\* its caller: it returns a response with the run id, status failed and the
\* error's text, and the persisted run record carries the same status and
\* message.
C2_StepErrorReturnsFailed ==
  \A p \in Procs :
    StepRaised(p) =>
      /\ ~Escaped(p)
      /\ Returned(p) =>
           /\ response[p] = OrchestrateResponse(uuid4(p), "failed", None, loc[p].e)
           /\ Persisted(p).kind = "run"
           /\ Persisted(p).run[1].status = "failed"
           /\ Persisted(p).run[1].error_message = loc[p].e

\* C3: when a step raises, no later step is started (no step name is added
\* to the step map, no _mark_step and no collaborator call follows), the
\* statuses recorded so far stay as they are, and the failed run record that
\* orchestrate returns with holds them.
C3_NoStepAfterRaise ==
  /\ [][\A p \in Procs :
          IsSome(loc[p].e) =>
            /\ R(p).steps = run'[p][1].steps
            /\ marks'[p] = marks[p]
            /\ calls'[p] = calls[p]]_vars
  /\ [](\A p \in Procs :
          (Returned(p) /\ IsSome(loc[p].e)) =>
            /\ Persisted(p).kind = "run"
            /\ Persisted(p).run[1].status = "failed"
            /\ Persisted(p).run[1].steps = R(p).steps)

\* A run that failed in the export step, returned, with the four steps
\* before it still succeeded and export_csv the last step of the map.
C3_Witness ==
  \E p \in Procs :
    /\ Returned(p) /\ loc[p].e = Some(ErrorText("exporter"))
    /\ Len(R(p).steps) = 5
    /\ R(p).steps[5] = [name |-> "export_csv", status |-> "running"]
    /\ \A i \in 1..4 : R(p).steps[i].status = "succeeded"

\* C4: if a write of the run store fails at any save of orchestrate, the
\* caller still receives a structured response with a status field, not a
\* raised exception.
C4_StoreFailureStillResponds ==
  \A p \in Procs :
    StoreFailed(p) =>
      /\ ~Escaped(p)
      /\ Returned(p) => (response[p].kind = "response" /\ response[p].status = "failed")

\* C5: write-before-return: at every collaborator call and when orchestrate
\* returns, the persisted record equals the in-memory run record.
C5_WriteBeforeReturn ==
  \A p \in Procs :
    pc[p].k \in {"call", "return_ok", "return_failed", "done"} =>
      Persisted(p) = InMemory(p)

\* The group creator is about to be called with seven steps recorded.
C5_Witness ==
  \E p \in Procs :
    /\ pc[p] = PS("call", "create_project")
    /\ Len(R(p).steps) = 8
    /\ R(p).updated_at_iso > R(p).created_at_iso

\* C6: a load that interleaves with a save of the same run returns the
\* complete previous version or the complete new version of the record
\* (not-found before the first version), never an empty or partly written one.
C6_AtomicSave ==
  [][\A p \in Procs :
       (lastRead' # lastRead /\ lastRead'.run_id = uuid4(p) /\ io[p] # "idle") =>
         lastRead'.got \in {before[p], InMemory(p)}]_vars

\* C7: if the process is interrupted during a save, a later load returns the
\* state before that save or the state after it, never a third value.
C7_CrashConsistent ==
  \A p \in Procs :
    io[p] = "interrupted" => Persisted(p) \in {before[p], InMemory(p)}

\* Position of a step name in the fixed order, for the steps of a step map.
InOrder(steps) ==
  \A i, j \in 1..Len(steps) :
    i < j => StepIndex(steps[i].name) < StepIndex(steps[j].name)

\* C8: the steps are started in the fixed order: the insertion order of the
\* step map follows it, and a step is started only when every step before it
\* in the map is succeeded (every step but the last inserted is succeeded).
C8_FixedStepOrder ==
  \A p \in Procs :
    IsSome(run[p]) =>
      /\ InOrder(R(p).steps)
      /\ \A i \in 1..Len(R(p).steps) : R(p).steps[i].name \in StepNames
      /\ \A i \in 1..(Len(R(p).steps) - 1) : R(p).steps[i].status = "succeeded"
      /\ \A i, j \in 1..Len(marks[p]) :
           i < j => StepIndex(marks[p][i][1]) <= StepIndex(marks[p][j][1])

\* All eight steps ran, in order.
C8_Witness ==
  \E p \in Procs :
    /\ IsSome(run[p])
    /\ [i \in 1..Len(R(p).steps) |-> R(p).steps[i].name] = StepOrder
    /\ R(p).status = "succeeded"

\* The interpreted filter has none of industry, location and investor_type
\* (each is absent or empty).
NoCriteria(parsed) ==
  /\ parsed.industry \in {NoneStr, ""}
  /\ parsed.location \in {NoneStr, ""}
  /\ parsed.investor_type \in {NoneStr, ""}

MarkedAt(p, step, status) ==
  {i \in 1..Len(marks[p]) : marks[p][i] = <<step, status>>}

\* C9: the external-source step is skipped exactly when the filter has none
\* of industry, location and investor_type: then fetch_apollo is recorded
\* succeeded without ever being recorded running and the external reader is
\* not called; otherwise it is recorded running, the reader is called once,
\* and only then is it recorded succeeded.
C9_ApolloSkippedIffNoCriteria ==
  \A p \in Procs :
    IsSome(loc[p].parsed) =>
      LET skip == NoCriteria(loc[p].parsed[1])
          running == MarkedAt(p, "fetch_apollo", "running")
          succeeded == MarkedAt(p, "fetch_apollo", "succeeded")
          reached == InSteps(R(p).steps, "merge_filter")
      IN /\ calls[p]["apollo"] <= 1
         /\ Cardinality(running) <= 1 /\ Cardinality(succeeded) <= 1
         /\ skip => (running = {} /\ calls[p]["apollo"] = 0)
         /\ ~skip => /\ calls[p]["apollo"] = 1 => running # {}
                     /\ succeeded # {} =>
                          /\ calls[p]["apollo"] = 1
                          /\ \E i \in running : \A j \in succeeded : i < j
         /\ reached => /\ succeeded # {}
                       /\ StepStatus(R(p).steps, "fetch_apollo") = "succeeded"
                       /\ (running = {}) <=> skip

\* A filter with a source project only: the run is past the external-source
\* step, which was recorded succeeded, never running, the reader not called.
C9_Witness ==
  \E p \in Procs :
    /\ IsSome(loc[p].parsed) /\ NoCriteria(loc[p].parsed[1])
    /\ loc[p].parsed[1].source_project = "ENIGMA"
    /\ InSteps(R(p).steps, "merge_filter")
    /\ MarkedAt(p, "fetch_apollo", "succeeded") # {}
    /\ calls[p]["apollo"] = 0

\* The grouping is requested, the run is not a dry run, and a non-empty
\* new-project name was extracted.
GroupingWanted(p) ==
  /\ request[p].create_project = TRUE
  /\ request[p].dry_run = FALSE
  /\ IsSome(loc[p].parsed)
  /\ loc[p].parsed[1].new_project \notin {NoneStr, ""}

\* C10: the create_project step runs (is in the step map, the group creator
\* is called) if and only if options.create_project is true, options.dry_run
\* is false and the filter has a non-empty new_project; with dry_run = true
\* the group creator is never called.
C10_CreateProjectIffWanted ==
  \A p \in Procs :
    IsSome(run[p]) =>
      /\ InSteps(R(p).steps, "create_project") => GroupingWanted(p)
      /\ calls[p]["group_creator"] > 0 => GroupingWanted(p)
      /\ request[p].dry_run => calls[p]["group_creator"] = 0
      /\ calls[p]["group_creator"] <= 1
      /\ (pc[p].k \in {"finish", "return_ok"} \/ R(p).status = "succeeded") =>
           /\ InSteps(R(p).steps, "create_project") <=> GroupingWanted(p)
           /\ calls[p]["group_creator"] = 1 <=> GroupingWanted(p)

\* A dry run that asked for the grouping and extracted a name succeeded
\* without the step.
C10_Witness ==
  \E p \in Procs :
    /\ IsSome(run[p]) /\ R(p).status = "succeeded"
    /\ request[p].dry_run /\ request[p].create_project
    /\ loc[p].parsed[1].new_project = "LONDON"
    /\ ~InSteps(R(p).steps, "create_project")
    /\ calls[p]["group_creator"] = 0

\* The run of p succeeded: control is past the last step.
Succeeded(p) ==
  IsSome(run[p]) /\ (pc[p].k \in {"finish", "return_ok"} \/ R(p).status = "succeeded")

\* C11 (as stated): in a run that reached the export step successfully and
\* has returned, calendar is in the step map if and only if
\* options.include_calendar, email_draft if and only if
\* options.include_email_draft, and the collaborator of a step not requested
\* was never called.
C11_OptionalStepsIffRequested ==
  \A p \in Procs :
    (/\ Returned(p)
     /\ InSteps(R(p).steps, "export_csv")
     /\ StepStatus(R(p).steps, "export_csv") = "succeeded") =>
      /\ InSteps(R(p).steps, "calendar") <=> request[p].include_calendar
      /\ InSteps(R(p).steps, "email_draft") <=> request[p].include_email_draft
      /\ ~request[p].include_calendar => calls[p]["calendar"] = 0
      /\ ~request[p].include_email_draft => calls[p]["drafter"] = 0

\* C11 (amended): in every run a step that is not requested is never recorded
\* and its collaborator is never called; in a run that succeeds, calendar is
\* in the step map (and the calendar called once) if and only if
\* options.include_calendar, and email_draft (and the drafter called once) if
\* and only if options.include_email_draft.
C11_OptionalStepsOnlyIfRequested ==
  \A p \in Procs :
    IsSome(run[p]) =>
      /\ InSteps(R(p).steps, "calendar") => request[p].include_calendar
      /\ InSteps(R(p).steps, "email_draft") => request[p].include_email_draft
      /\ ~request[p].include_calendar => calls[p]["calendar"] = 0
      /\ ~request[p].include_email_draft => calls[p]["drafter"] = 0
      /\ calls[p]["calendar"] <= 1 /\ calls[p]["drafter"] <= 1
      /\ Succeeded(p) =>
           /\ InSteps(R(p).steps, "calendar") <=> request[p].include_calendar
           /\ InSteps(R(p).steps, "email_draft") <=> request[p].include_email_draft
           /\ calls[p]["calendar"] = 1 <=> request[p].include_calendar
           /\ calls[p]["drafter"] = 1 <=> request[p].include_email_draft

\* A run succeeded with the draft requested and the calendar not: email_draft
\* is recorded, calendar is not, and the calendar was never called.
C11_Witness ==
  \E p \in Procs :
    /\ IsSome(run[p]) /\ R(p).status = "succeeded"
    /\ ~request[p].include_calendar /\ request[p].include_email_draft
    /\ InSteps(R(p).steps, "email_draft") /\ ~InSteps(R(p).steps, "calendar")
    /\ calls[p]["calendar"] = 0 /\ calls[p]["drafter"] = 1

\* C12: when orchestrate returns succeeded, the result holds the parsed
\* query, the merged and filtered investors and the path of an export of
\* them; availability is set iff the calendar step ran, email_draft iff the
\* email_draft step ran, project_id only if the create_project step ran; and
\* the result of the response equals the result of the persisted run record.
C12_ResultFollowsSteps ==
  \A p \in Procs :
    (Returned(p) /\ response[p].status = "succeeded") =>
      /\ IsSome(response[p].result)
      /\ LET res == response[p].result[1]
         IN /\ res.parsed_query = loc[p].parsed
            /\ res.investors =
                 ApplyTicketFilter(
                   _merge_and_dedupe(loc[p].airtable_investors, loc[p].apollo_investors),
                   loc[p].parsed[1].ticket_size)
            /\ IsSome(res.csv_path)
            /\ res.csv_path[1] \in DOMAIN exports
            /\ exports[res.csv_path[1]] = res.investors
            /\ IsSome(res.availability) <=> InSteps(R(p).steps, "calendar")
            /\ IsSome(res.availability) => res.availability = Some(Availability)
            /\ IsSome(res.email_draft) <=> InSteps(R(p).steps, "email_draft")
            /\ res.project_id # NoneStr => InSteps(R(p).steps, "create_project")
      /\ Persisted(p).kind = "run"
      /\ Persisted(p).run[1].result = response[p].result

\* A succeeded response of a run without the calendar step, with a draft, and
\* whose create_project step ran and gave no project id.
C12_Witness ==
  \E p \in Procs :
    /\ Returned(p) /\ response[p].status = "succeeded"
    /\ response[p].result[1].availability = None
    /\ IsSome(response[p].result[1].email_draft)
    /\ InSteps(R(p).steps, "create_project")
    /\ response[p].result[1].project_id = NoneStr
    /\ Len(response[p].result[1].investors) > 0

\* The interpreter returned the dict of its except clause: an explicit error.
ExplicitError(p) ==
  IsSome(loc[p].parsed_raw) /\ loc[p].parsed_raw[1].error # NoneStr

\* C13: when the interpreter returns an explicit error, neither source
\* reader is called, no step other than parse_query is in the step map, and
\* the response orchestrate returns is failed with an error message that
\* contains "Parse error".
C13_ParseErrorAborts ==
  \A p \in Procs :
    ExplicitError(p) =>
      /\ calls[p]["airtable"] = 0 /\ calls[p]["apollo"] = 0
      /\ \A i \in 1..Len(R(p).steps) : R(p).steps[i].name = "parse_query"
      /\ Returned(p) =>
           /\ response[p].status = "failed"
           /\ IsSome(response[p].error_message)
           /\ response[p].error_message[1][1] = "Parse error: "

(************************** merge: properties *******************************)
\* _merge_and_dedupe has run in p: its inputs, in the order it processed
\* them, its output, and the number of records of source A.
Merged(p) == pc[p] = PS("mark_succeeded", "merge_filter")
Inputs(p) == loc[p].airtable_investors \o loc[p].apollo_investors
Output(p) == loc[p].result.investors
LenA(p) == Len(loc[p].airtable_investors)

\* A text field a record does not have: None or "".
Absent(s) == s = NoneS \/ s = <<>>
AllAbsent(inv) == Absent(inv.website) /\ Absent(inv.linkedin_url) /\ Absent(inv.name)
\* The field the key is taken from: the first one the record has.
FirstPresent(inv) ==
  IF ~Absent(inv.website) THEN inv.website
  ELSE IF ~Absent(inv.linkedin_url) THEN inv.linkedin_url
  ELSE IF ~Absent(inv.name) THEN inv.name
  ELSE <<>>
\* d is the lower-case form of the character c.
IsLowerOf(c, d) ==
  \/ <<c, d>> \in {<<"X", "x">>, <<"Y", "y">>, <<"A", "a">>}
  \/ (c = d /\ c \notin {"X", "Y", "A"})
\* k is s without its leading and trailing blanks, in lower case.
IsTrimmedLower(s, k) ==
  /\ k # <<>> => (k[1] # " " /\ k[Len(k)] # " ")
  /\ \E lo \in 1..(Len(s) + 1) :
       /\ lo + Len(k) - 1 <= Len(s)
       /\ \A i \in 1..Len(s) : (i < lo \/ i > lo + Len(k) - 1) => s[i] = " "
       /\ \A j \in 1..Len(k) : IsLowerOf(s[lo + j - 1], k[j])
\* s has nothing but blanks.
Blank(s) == \A i \in 1..Len(s) : s[i] = " "

\* C14 (as stated): the key of every record is the trimmed, lower-cased
\* website if the record has one, else the trimmed, lower-cased LinkedIn URL
\* if it has one, else the trimmed, lower-cased name, and it is the empty
\* string only if all three are absent.
C14_KeyByPriority ==
  \A p \in Procs :
    Merged(p) =>
      \A i \in 1..Len(Inputs(p)) :
        /\ IsTrimmedLower(FirstPresent(Inputs(p)[i]), loc[p].keys[i])
        /\ loc[p].keys[i] = <<>> => AllAbsent(Inputs(p)[i])

\* C14 (amended): the key of every record is the trimmed, lower-cased form
\* of the first field the record has among website, LinkedIn URL and name,
\* and it is the empty string exactly when all three are absent or that
\* first field is blank (a blank website is not passed over for the URL or
\* the name).
C14_KeyOfFirstPresent ==
  \A p \in Procs :
    Merged(p) =>
      \A i \in 1..Len(Inputs(p)) :
        /\ IsTrimmedLower(FirstPresent(Inputs(p)[i]), loc[p].keys[i])
        /\ loc[p].keys[i] = <<>> <=> Blank(FirstPresent(Inputs(p)[i]))

\* Merge has processed a record whose website " X" gave the key "x", one
\* whose URL "Y " gave "y" under an empty website, and one with a blank
\* website, a URL and a name whose key is empty.
C14_Witness ==
  \E p \in Procs :
    /\ Merged(p)
    /\ \E i, j, n \in 1..Len(Inputs(p)) :
         /\ Inputs(p)[i].website = <<" ", "X">> /\ loc[p].keys[i] = <<"x">>
         /\ Inputs(p)[j].website = <<>> /\ loc[p].keys[j] = <<"y">>
         /\ Inputs(p)[n].website = <<" ">> /\ loc[p].keys[n] = <<>>
         /\ ~Absent(Inputs(p)[n].name)

\* The positions of the input whose record merge keeps: those with an empty
\* key, and those whose key no earlier position has.
KeptPositions(p) ==
  { j \in 1..Len(Inputs(p)) :
      loc[p].keys[j] = <<>> \/ \A i \in 1..(j - 1) : loc[p].keys[i] # loc[p].keys[j] }

\* C15: first-seen-wins: merge processes A and then B, and its output is the
\* input without every record whose non-empty key is the key of an earlier
\* record, in the input's order; when a record of A and a record of B share
\* a website from which a key is taken, the B record is not in the output
\* and the only record of that key in the output is from A.
C15_FirstSeenWins ==
  \A p \in Procs :
    Merged(p) =>
      /\ Len(Output(p)) = Cardinality(KeptPositions(p))
      /\ \A j \in KeptPositions(p) :
           Output(p)[Cardinality({i \in KeptPositions(p) : i <= j})] = Inputs(p)[j]
      /\ \A i \in 1..LenA(p) : \A j \in (LenA(p) + 1)..Len(Inputs(p)) :
           (/\ ~Absent(Inputs(p)[i].website)
            /\ Inputs(p)[i].website = Inputs(p)[j].website
            /\ loc[p].keys[i] # <<>>) =>
             /\ \A n \in 1..Len(Output(p)) : Output(p)[n] # Inputs(p)[j]
             /\ \A n \in 1..Len(Output(p)) :
                  key(Output(p)[n]) = loc[p].keys[i] => Output(p)[n].source = "airtable"

\* Source A and source B each gave the record with website "x": the output
\* is the A record alone.
C15_Witness ==
  \E p \in Procs :
    /\ Merged(p)
    /\ LenA(p) = 1 /\ Len(Inputs(p)) = 2
    /\ Inputs(p)[1].website = <<"x">> /\ Inputs(p)[2].website = <<"x">>
    /\ Output(p) = << Inputs(p)[1] >>

\* A record with no website, no LinkedIn URL and the name "Acme".
IsAcme(inv) ==
  Absent(inv.website) /\ Absent(inv.linkedin_url) /\ inv.name = <<"A", "c", "m", "e">>

\* C16 (as stated): when the record "Acme" (no website, no URL) is once in
\* source A and once in source B, both instances are in the output.
C16_AcmeSurvivesTwice ==
  \A p \in Procs :
    Merged(p) =>
      \A i \in 1..LenA(p) : \A j \in (LenA(p) + 1)..Len(Inputs(p)) :
        (IsAcme(Inputs(p)[i]) /\ IsAcme(Inputs(p)[j])) =>
          /\ \E n \in 1..Len(Output(p)) : Output(p)[n] = Inputs(p)[i]
          /\ \E n \in 1..Len(Output(p)) : Output(p)[n] = Inputs(p)[j]

\* C16 (amended): when the record "Acme" (no website, no URL) is once in
\* source A and once in source B, its key is the name "acme", the instance
\* of A is in the output and the instance of B is not: exactly one record
\* with that key survives.
C16_AcmeSurvivesOnce ==
  \A p \in Procs :
    Merged(p) =>
      \A i \in 1..LenA(p) : \A j \in (LenA(p) + 1)..Len(Inputs(p)) :
        (IsAcme(Inputs(p)[i]) /\ IsAcme(Inputs(p)[j])) =>
          /\ loc[p].keys[i] = <<"a", "c", "m", "e">> /\ loc[p].keys[j] = loc[p].keys[i]
          /\ \E n \in 1..Len(Output(p)) : Output(p)[n] = Inputs(p)[i]
          /\ \A n \in 1..Len(Output(p)) : Output(p)[n] # Inputs(p)[j]
          /\ Cardinality({n \in 1..Len(Output(p)) : IsAcme(Output(p)[n])}) = 1

\* "Acme" came once from each source and the output is the A instance alone.
C16_Witness ==
  \E p \in Procs :
    /\ Merged(p)
    /\ LenA(p) = 1 /\ Len(Inputs(p)) = 2
    /\ IsAcme(Inputs(p)[1]) /\ IsAcme(Inputs(p)[2])
    /\ Output(p) = << Inputs(p)[1] >>

\* The non-empty keys of the records processed.
NonEmptyKeys(p) == { loc[p].keys[i] : i \in 1..Len(Inputs(p)) } \ { <<>> }
EmptyKeyPositions(p) == { i \in 1..Len(Inputs(p)) : loc[p].keys[i] = <<>> }

\* C17: a record whose key is empty is always kept and never makes merge
\* drop another record: the empty-key records of the output are those of the
\* input, all of them and in order, and the output has one record per
\* non-empty key besides them.
C17_EmptyKeyPassthrough ==
  \A p \in Procs :
    Merged(p) =>
      /\ SelectSeq(Output(p), LAMBDA r : key(r) = <<>>)
           = SelectSeq(Inputs(p), LAMBDA r : key(r) = <<>>)
      /\ Len(SelectSeq(Output(p), LAMBDA r : key(r) = <<>>))
           = Cardinality(EmptyKeyPositions(p))
      /\ Len(Output(p)) = Cardinality(EmptyKeyPositions(p)) + Cardinality(NonEmptyKeys(p))

\* Three records with an empty key (one of them twice) and one with a key:
\* all four are in the output.
C17_Witness ==
  \E p \in Procs :
    /\ Merged(p)
    /\ Cardinality(EmptyKeyPositions(p)) = 3
    /\ Len(Inputs(p)) = 4
    /\ Inputs(p)[1].name = Inputs(p)[3].name /\ 1 \in EmptyKeyPositions(p)
    /\ 3 \in EmptyKeyPositions(p)
    /\ Output(p) = Inputs(p)

\* C18: merge(A, B) is no longer than len(A) + len(B), and no two records of
\* the output with a non-empty key have the same key, wherever the
\* duplicates were (inside A, inside B, or across).
C18_LengthAndUniqueKeys ==
  \A p \in Procs :
    Merged(p) =>
      /\ Len(Output(p)) <= LenA(p) + Len(loc[p].apollo_investors)
      /\ \A m, n \in 1..Len(Output(p)) :
           (m < n /\ key(Output(p)[m]) # <<>>) => key(Output(p)[m]) # key(Output(p)[n])

\* Two records of A have the same key and so have two of B: the output has
\* one record of each key.
C18_Witness ==
  \E p \in Procs :
    /\ Merged(p)
    /\ LenA(p) = 2 /\ Len(Inputs(p)) = 4
    /\ loc[p].keys[1] = loc[p].keys[2] /\ loc[p].keys[1] # <<>>
    /\ loc[p].keys[3] = loc[p].keys[4] /\ loc[p].keys[3] \notin {<<>>, loc[p].keys[1]}
    /\ Len(Output(p)) = 2

\* C19 (as stated): when no non-empty key of a record of A is the key of a
\* record of B, merge(A, B) is A followed by B, of length len(A) + len(B).
C19_DisjointSourcesConcatenate ==
  \A p \in Procs :
    (/\ Merged(p)
     /\ \A i \in 1..LenA(p) : \A j \in (LenA(p) + 1)..Len(Inputs(p)) :
          loc[p].keys[i] # <<>> => loc[p].keys[i] # loc[p].keys[j]) =>
      /\ Len(Output(p)) = LenA(p) + Len(loc[p].apollo_investors)
      /\ Output(p) = loc[p].airtable_investors \o loc[p].apollo_investors

\* C19 (amended): when no two records of A ++ B have the same non-empty key
\* (none shared between A and B, none repeated inside A or inside B),
\* merge(A, B) is A followed by B, of length len(A) + len(B).
C19_DistinctKeysConcatenate ==
  \A p \in Procs :
    (/\ Merged(p)
     /\ \A i, j \in 1..Len(Inputs(p)) :
          (i < j /\ loc[p].keys[i] # <<>>) => loc[p].keys[i] # loc[p].keys[j]) =>
      /\ Len(Output(p)) = LenA(p) + Len(loc[p].apollo_investors)
      /\ Output(p) = loc[p].airtable_investors \o loc[p].apollo_investors

\* Two records of A and two of B, with three different keys and one empty
\* key: the output is the four of them in order.
C19_Witness ==
  \E p \in Procs :
    /\ Merged(p)
    /\ LenA(p) = 2 /\ Len(Inputs(p)) = 4
    /\ Cardinality(NonEmptyKeys(p)) = 3
    /\ Output(p) = Inputs(p)

\* s is a subsequence of t.
RECURSIVE IsSubsequence(_, _)
IsSubsequence(s, t) ==
  IF s = <<>> THEN TRUE
  ELSE IF t = <<>> THEN FALSE
  ELSE IF Head(s) = Head(t) THEN IsSubsequence(Tail(s), Tail(t))
  ELSE IsSubsequence(s, Tail(t))

\* C20: order preservation: the output of merge(A, B) is a subsequence of
\* A ++ B, the records of A that survive coming first and in A's order, then
\* those of B in B's order.
C20_OrderPreserved ==
  \A p \in Procs :
    Merged(p) =>
      /\ IsSubsequence(Output(p), Inputs(p))
      /\ \A m, n \in 1..Len(Output(p)) :
           (m < n /\ Output(p)[m].source = "apollo") => Output(p)[n].source = "apollo"
      /\ IsSubsequence(SelectSeq(Output(p), LAMBDA r : r.source = "airtable"),
                       loc[p].airtable_investors)
      /\ IsSubsequence(SelectSeq(Output(p), LAMBDA r : r.source = "apollo"),
                       loc[p].apollo_investors)

\* The second record of A and the first of B were dropped; the output is the
\* first of A followed by the second of B.
C20_Witness ==
  \E p \in Procs :
    /\ Merged(p)
    /\ LenA(p) = 2 /\ Len(Inputs(p)) = 4
    /\ Output(p) = << Inputs(p)[1], Inputs(p)[4] >>
    /\ Inputs(p)[1] # Inputs(p)[2]

\* C21: merging is idempotent: merging the list a merge produced with the
\* empty list gives that list again; in particular, when the second source is
\* empty, merge(merge(A, []), []) = merge(A, []).
C21_MergeIdempotent ==
  \A p \in Procs :
    Merged(p) =>
      /\ _merge_and_dedupe(Output(p), <<>>) = Output(p)
      /\ loc[p].apollo_investors = <<>> =>
            _merge_and_dedupe(_merge_and_dedupe(loc[p].airtable_investors, <<>>), <<>>)
              = _merge_and_dedupe(loc[p].airtable_investors, <<>>)
\* A merge of two records with one key and no second source: one survives.
C21_Witness ==
  \E p \in Procs :
    /\ Merged(p)
    /\ loc[p].apollo_investors = <<>>
    /\ LenA(p) = 2
    /\ Len(Output(p)) = 1
    /\ Output(p) = _merge_and_dedupe(loc[p].airtable_investors, <<>>)

\* The range filter as the structured filter states it: a bound is specified
\* when it is a number, 0 included.
BoundGiven(ts) ==
  IsSome(ts) /\ (ts[1].minimum # NoneNum \/ ts[1].maximum # NoneNum)
OutOfRange(i, t) ==
  \/ (t.minimum # NoneNum /\ i.ticket_max # NoneNum /\ i.ticket_max < t.minimum)
  \/ (t.maximum # NoneNum /\ i.ticket_min # NoneNum /\ i.ticket_min > t.maximum)
\* C22: when the filter specifies a minimum or a maximum (0 included) the
\* step keeps exactly the merged records that are not out of range (a record
\* without bounds is never out of range); when it specifies neither, the
\* merged list is the step's output.
C22_RangeFilter ==
  \A p \in Procs :
    Merged(p) =>
      LET ts == loc[p].parsed[1].ticket_size
      IN Output(p) =
           IF BoundGiven(ts)
           THEN SelectSeq(loc[p].merged, LAMBDA i : ~OutOfRange(i, ts[1]))
           ELSE loc[p].merged

\* create_project returned None to p.
NoIdentifier(p) == loc[p].project_id = Some(NoneStr)
\* C23: when the create_project step ran and the group creator returned no
\* identifier, nothing is raised on that account; unless a write of the run
\* store fails afterwards, the step is recorded succeeded and the run ends
\* succeeded, returned and persisted, with project_id absent.
C23_NoIdentifierIsNotFatal ==
  \A p \in Procs :
    NoIdentifier(p) =>
      /\ ~StepRaised(p)
      /\ StepStatus(R(p).steps, "create_project") \in {"running", "succeeded"}
      /\ ~StoreFailed(p) =>
            /\ pc[p].k \in {"mark_succeeded", "finish", "return_ok", "done"}
            /\ pc[p].k \in {"finish", "return_ok", "done"} =>
                  StepStatus(R(p).steps, "create_project") = "succeeded"
            /\ Returned(p) =>
                  /\ response[p].status = "succeeded"
                  /\ response[p].result[1].project_id = NoneStr
                  /\ Persisted(p).kind = "run"
                  /\ Persisted(p).run[1].status = "succeeded"
                  /\ StepStatus(Persisted(p).run[1].steps, "create_project") = "succeeded"
                  /\ Persisted(p).run[1].result[1].project_id = NoneStr
\* A run whose group creator returned no identifier has returned succeeded.
C23_Witness ==
  \E p \in Procs :
    /\ NoIdentifier(p) /\ Returned(p)
    /\ calls[p]["group_creator"] = 1
    /\ response[p].status = "succeeded"
    /\ Persisted(p).run[1].result[1].project_id = NoneStr
    /\ StepStatus(Persisted(p).run[1].steps, "create_project") = "succeeded"

\* The fetch step, the list and the other source's list of a reader.
FetchStep(r) == IF r = "airtable" THEN "fetch_airtable" ELSE "fetch_apollo"
ListOf(p, r) ==
  IF r = "airtable" THEN loc[p].airtable_investors ELSE loc[p].apollo_investors
OtherListOf(p, r) ==
  IF r = "airtable" THEN loc[p].apollo_investors ELSE loc[p].airtable_investors
\* C24: when a reader failed internally it raised nothing and its list is
\* empty; its fetch step is recorded succeeded before the run goes on; the
\* merge is the merge of the other source's records alone, and a run that
\* returns succeeded exported exactly those (filtered) records.
C24_ReaderFailureIsEmptyList ==
  \A p \in Procs :
    \A r \in loc[p].failed :
      /\ loc[p].e # Some(ErrorText(r))
      /\ ListOf(p, r) = <<>>
      /\ InSteps(R(p).steps, FetchStep(r))
      /\ (~StepRaised(p) /\ ~StoreFailed(p)) =>
            pc[p].k \in {"mark_running", "call", "mark_succeeded", "finish",
                         "return_ok", "done"}
      /\ InSteps(R(p).steps, "merge_filter") =>
            StepStatus(R(p).steps, FetchStep(r)) = "succeeded"
      /\ InSteps(R(p).steps, "export_csv") =>
            /\ loc[p].merged = MergeLoop(OtherListOf(p, r), {}, <<>>)
            /\ loc[p].result.investors =
                 ApplyTicketFilter(loc[p].merged, loc[p].parsed[1].ticket_size)
      /\ (Returned(p) /\ response[p].status = "succeeded") =>
            /\ StepStatus(Persisted(p).run[1].steps, FetchStep(r)) = "succeeded"
            /\ StepStatus(Persisted(p).run[1].steps, "export_csv") = "succeeded"
            /\ response[p].result[1].investors = loc[p].result.investors
            /\ exports[response[p].result[1].csv_path[1]] = loc[p].result.investors
\* The internal reader failed, and the run returned succeeded with the two
\* records of the external reader.
C24_Witness ==
  \E p \in Procs :
    /\ loc[p].failed = {"airtable"}
    /\ Returned(p) /\ response[p].status = "succeeded"
    /\ Len(response[p].result[1].investors) = 2
    /\ \A i \in 1..2 : response[p].result[1].investors[i].source = "apollo"

\* What the collaborators answered to p: the interpreter's dict, the readers'
\* lists and failures, the calendar's slots, the group creator's identifier,
\* and the exception that left a call.
Heard(p) ==
  [parsed_raw |-> loc[p].parsed_raw, airtable |-> loc[p].airtable_investors,
   apollo |-> loc[p].apollo_investors, failed |-> loc[p].failed,
   availability |-> loc[p].availability, project_id |-> loc[p].project_id,
   e |-> loc[p].e]
\* A result payload without its timestamp-derived value, the export path.
Payload(result) ==
  IF IsSome(result) THEN Some([result[1] EXCEPT !.csv_path = None]) ELSE None
\* C25: two invocations that returned, given the same options and the same
\* answers of the collaborators, made the same _mark_step calls in the same
\* order, gave the run the same statuses in the same order, and returned and
\* persisted the same status, error message, step map and result payload
\* (the export path apart); their run identifiers differ.
C25_Determinism ==
  \A p, q \in Procs :
    (/\ p # q /\ Returned(p) /\ Returned(q)
     /\ request[p] = request[q]
     /\ Heard(p) = Heard(q)) =>
      /\ marks[p] = marks[q]
      /\ loc[p].statuses = loc[q].statuses
      /\ response[p].status = response[q].status
      /\ response[p].error_message = response[q].error_message
      /\ Payload(response[p].result) = Payload(response[q].result)
      /\ Persisted(p).kind = "run" /\ Persisted(q).kind = "run"
      /\ Persisted(p).run[1].status = Persisted(q).run[1].status
      /\ Persisted(p).run[1].steps = Persisted(q).run[1].steps
      /\ Persisted(p).run[1].error_message = Persisted(q).run[1].error_message
      /\ Payload(Persisted(p).run[1].result) = Payload(Persisted(q).run[1].result)
      /\ response[p].run_id # response[q].run_id
\* Two invocations whose external reader failed both returned succeeded with
\* the internal reader's record.
C25_Witness ==
  /\ \A p \in Procs :
       /\ Returned(p) /\ response[p].status = "succeeded"
       /\ loc[p].failed = {"apollo"}
       /\ Len(response[p].result[1].investors) = 1
       /\ loc[p].statuses = <<"pending", "running", "succeeded">>
  /\ Heard(1) = Heard(2)
  /\ marks[1] = marks[2]

\* The step map the _mark_step calls ms build.
RECURSIVE StepsOf(_)
StepsOf(ms) ==
  IF ms = <<>> THEN <<>>
  ELSE DictSet(StepsOf(SubSeq(ms, 1, Len(ms) - 1)), ms[Len(ms)][1], ms[Len(ms)][2])
\* The content of p's run file, if the file exists.
FileOf(p) == IF uuid4(p) \in DOMAIN files THEN <<files[uuid4(p)]>> ELSE <<>>
IsPrefix(s, t) == Len(s) <= Len(t) /\ SubSeq(t, 1, Len(s)) = s
\* C26: in any interleaving of two invocations the run identifiers differ;
\* the run file of an invocation changes only while that invocation is
\* inside _save_run, and then holds a prefix of the text of its own run; and
\* the record persisted when an invocation returns is its own in-memory run,
\* built from its own _mark_step calls, locals and exception.
C26_IndependentInvocations ==
  /\ [](\A p, q \in Procs :
         (p # q /\ IsSome(run[p]) /\ IsSome(run[q])) => R(p).run_id # R(q).run_id)
  /\ [](\A p \in Procs :
         Returned(p) =>
           /\ Persisted(p) = InMemory(p)
           /\ R(p).run_id = uuid4(p)
           /\ R(p).steps = StepsOf(marks[p])
           /\ R(p).status = response[p].status
           /\ R(p).status = "succeeded" =>
                 /\ R(p).result = Some(loc[p].result)
                 /\ loc[p].result.investors =
                      ApplyTicketFilter(
                        _merge_and_dedupe(loc[p].airtable_investors, loc[p].apollo_investors),
                        loc[p].parsed[1].ticket_size)
           /\ R(p).status = "failed" =>
                 R(p).result = None /\ R(p).error_message = loc[p].e)
  /\ [][\A p \in Procs :
          FileOf(p)' # FileOf(p) =>
            /\ io[p] \in {"open", "write"}
            /\ IsPrefix(FileOf(p)'[1], Serialize(R(p)))]_vars
\* Both invocations returned, one succeeded and one failed, each with its
\* own record persisted.
C26_Witness ==
  /\ Returned(1) /\ Returned(2)
  /\ Persisted(1).run[1].status = "succeeded"
  /\ Persisted(2).run[1].status = "failed"
  /\ Persisted(1).run[1].run_id # Persisted(2).run[1].run_id
  /\ Len(Persisted(1).run[1].steps) > Len(Persisted(2).run[1].steps)

\* C27: the export of a run belongs to it alone: two invocations that
\* exported return different export locations, and the file at the location
\* a run returns holds the records of that run.
C27_ExportsNotShared ==
  \A p \in Procs :
    IsSome(loc[p].result.csv_path) =>
      /\ exports[loc[p].result.csv_path[1]] = loc[p].result.investors
      /\ \A q \in Procs \ {p} :
           IsSome(loc[q].result.csv_path) =>
             loc[q].result.csv_path # loc[p].result.csv_path

\* C28: a run record persisted with status succeeded or failed is read-only:
\* no step of orchestrate or of get_run changes what the run store holds for
\* it (status, step map, error message, result, timestamps).
C28_TerminalRecordReadOnly ==
  [][\A run_id \in RunIds :
       (/\ _load_run(files, run_id).kind = "run"
        /\ _load_run(files, run_id).run[1].status \in Terminal) =>
         _load_run(files, run_id)' = _load_run(files, run_id)]_vars
\* get_run read the succeeded record of a run that has returned, and the
\* store still holds what it read.
C28_Witness ==
  \E p \in Procs :
    /\ Returned(p) /\ response[p].status = "succeeded"
    /\ lastRead.run_id = uuid4(p)
    /\ lastRead.got.kind = "run"
    /\ lastRead.got.run[1].status = "succeeded"
    /\ lastRead.got = Persisted(p)

\* C29: every persisted version of a run record has updated_at >= created_at;
\* the run in memory, which every save writes, keeps its run_id and
\* created_at and its updated_at never decreases; and a persisted version has
\* the run_id and created_at of the version the file held when _save_run was
\* entered, and an updated_at not below it.
C29_Timestamps ==
  /\ [](\A p \in Procs :
         Persisted(p).kind = "run" =>
           LET r == Persisted(p).run[1]
           IN /\ r.updated_at_iso >= r.created_at_iso
              /\ r.run_id = R(p).run_id
              /\ r.created_at_iso = R(p).created_at_iso
              /\ r.updated_at_iso <= R(p).updated_at_iso
              /\ before[p].kind = "run" =>
                    /\ r.run_id = before[p].run[1].run_id
                    /\ r.created_at_iso = before[p].run[1].created_at_iso
                    /\ r.updated_at_iso >= before[p].run[1].updated_at_iso)
  /\ [][\A p \in Procs :
          IsSome(run[p]) =>
            /\ IsSome(run'[p])
            /\ run'[p][1].run_id = R(p).run_id
            /\ run'[p][1].created_at_iso = R(p).created_at_iso
            /\ run'[p][1].updated_at_iso >= R(p).updated_at_iso]_vars
\* A version saved a second after the run was created replaced the one
\* saved at creation time.
C29_Witness ==
  \E p \in Procs :
    /\ Persisted(p).kind = "run" /\ before[p].kind = "run"
    /\ Persisted(p).run[1].updated_at_iso > Persisted(p).run[1].created_at_iso
    /\ before[p].run[1].updated_at_iso < Persisted(p).run[1].updated_at_iso
    /\ Len(Persisted(p).run[1].steps) > 1

\* The positions of the steps recorded running in a step map.
RunningSteps(steps) == {i \in 1..Len(steps) : steps[i].status = "running"}
NoOverlap(r) ==
  /\ Cardinality(RunningSteps(r.steps)) <= 1
  /\ \A i \in RunningSteps(r.steps) : i = Len(r.steps)
  /\ \A i \in 1..Len(r.steps) : r.steps[i].status \in {"running", "succeeded"}
  /\ r.status = "succeeded" => RunningSteps(r.steps) = {}
\* C30: in the run in memory and in every persisted version of it, at most
\* one step is running, it is the step inserted last, every other step is
\* succeeded, and a succeeded run has no running step.
C30_StepsNeverOverlap ==
  \A p \in Procs :
    /\ IsSome(run[p]) => NoOverlap(R(p))
    /\ Persisted(p).kind = "run" => NoOverlap(Persisted(p).run[1])
\* A run failed in its fifth step: that step alone is still running.
C30_Witness ==
  \E p \in Procs :
    /\ Returned(p) /\ Persisted(p).kind = "run"
    /\ Persisted(p).run[1].status = "failed"
    /\ Len(Persisted(p).run[1].steps) = 5
    /\ RunningSteps(Persisted(p).run[1].steps) = {5}

\* The run of p has a terminal status, in memory and in the run store.
TerminalRun(p) ==
  /\ IsSome(run[p]) /\ R(p).status \in Terminal
  /\ Persisted(p).kind = "run" /\ Persisted(p).run[1].status \in Terminal
\* C31: every invocation of orchestrate that is not terminated eventually
\* reaches a terminal run status, succeeded or failed.
C31_EventuallyTerminal ==
  \A p \in Procs : (pc[p] = P("start")) ~> TerminalRun(p)

\* p is in _new_run and calls _save_run in this step (line 95).
CreatesRun(p) == pc[p] = P("start") /\ io[p] = "idle" /\ io'[p] = "open"
\* _new_run returns to orchestrate in this step (line 156).
CreatedRun(p) == pc[p] = P("start") /\ pc'[p] = P("set_running")
\* C32: the identifier _new_run allocates is that of no run in memory and of
\* no file of the run store; when _new_run returns, the store holds under it
\* a record with status pending, an empty step map, no error message and no
\* result; and an invocation creates one record: the store never holds more
\* files than there are runs, and a run is given the status pending once.
C32_CreateRun ==
  /\ [][\A p \in Procs :
          CreatesRun(p) =>
            /\ run'[p][1].run_id \notin DOMAIN files
            /\ \A q \in Procs \ {p} :
                 IsSome(run[q]) => R(q).run_id # run'[p][1].run_id]_vars
  /\ [][\A p \in Procs :
          CreatedRun(p) =>
            /\ Persisted(p)'.kind = "run"
            /\ Persisted(p)'.run[1].run_id = R(p).run_id
            /\ Persisted(p)'.run[1].status = "pending"
            /\ Persisted(p)'.run[1].steps = <<>>
            /\ Persisted(p)'.run[1].error_message = None
            /\ Persisted(p)'.run[1].result = None]_vars
  /\ [](/\ Cardinality(DOMAIN files) <= Cardinality({p \in Procs : IsSome(run[p])})
        /\ \A p \in Procs :
             /\ IsSome(run[p]) =>
                  Cardinality({i \in 1..Len(loc[p].statuses) :
                                 loc[p].statuses[i] = "pending"}) = 1
             /\ Returned(p) => R(p).run_id \in DOMAIN files)
\* _new_run has returned to the first invocation, the store holding its
\* pending record beside the record of the second.
C32_Witness ==
  /\ pc[1] = P("set_running") /\ io[1] = "idle"
  /\ Persisted(1).kind = "run"
  /\ Persisted(1).run[1].status = "pending"
  /\ Persisted(1).run[1].steps = <<>>
  /\ Persisted(2).kind = "run"
  /\ Cardinality(DOMAIN files) = 2

\* The invocations that called _save_run with a run of identifier run_id.
Savers(run_id) == {p \in Procs : IsSome(run[p]) /\ R(p).run_id = run_id}
\* The record most recently saved under p's identifier: the run in memory,
\* or, while the save of it is under way, also what was saved before (the
\* version before, or nothing).
LastSaved(p) ==
  {InMemory(p)} \cup
    (IF io[p] # "idle" /\ before[p].kind \in {"run", "None"} THEN {before[p]} ELSE {})
\* C33: get_run returns None for an identifier under which no run was ever
\* saved, and for a saved identifier a record equal in every field to the
\* one most recently saved under it.
C33_LoadRoundTrip ==
  [][lastRead' # lastRead =>
       LET run_id == lastRead'.run_id
       IN IF Savers(run_id) = {}
          THEN lastRead'.got.kind = "None"
          ELSE \A p \in Savers(run_id) : lastRead'.got \in LastSaved(p)]_vars

\* Every record of a list has a non-empty name.
AllNamed(investors) == \A i \in 1..Len(investors) : TruthyS(investors[i].name)
\* C34: every record that reaches merge, from either reader, and every
\* record of a result payload has a non-empty name.
C34_NamePopulated ==
  \A p \in Procs :
    /\ AllNamed(loc[p].airtable_investors)
    /\ AllNamed(loc[p].apollo_investors)
    /\ AllNamed(loc[p].result.investors)
    /\ IsSome(response[p].result) => AllNamed(response[p].result[1].investors)

\* The records of a list.
Records(investors) == {investors[i] : i \in 1..Len(investors)}
\* C35: every record of the internal reader is warm and every record built
\* from the external reader is not, before merge; and in the investors of a
\* result payload a record is warm if and only if it is one of the internal
\* reader's, and not warm if and only if it is one of the external reader's.
C35_WarmIffInternal ==
  \A p \in Procs :
    /\ \A r \in Records(loc[p].airtable_investors) : r.is_warm_lead
    /\ \A r \in Records(loc[p].apollo_investors) : ~r.is_warm_lead
    /\ \A r \in Records(loc[p].result.investors) :
         /\ r.is_warm_lead <=> r \in Records(loc[p].airtable_investors)
         /\ ~r.is_warm_lead <=> r \in Records(loc[p].apollo_investors)
    /\ IsSome(response[p].result) =>
         response[p].result[1].investors = loc[p].result.investors
\* A run returned succeeded with warm and not warm records in its payload.
C35_Witness ==
  \E p \in Procs :
    /\ Returned(p) /\ response[p].status = "succeeded"
    /\ \E r \in Records(response[p].result[1].investors) : r.is_warm_lead
    /\ \E r \in Records(response[p].result[1].investors) : ~r.is_warm_lead

\* The step in whose body the exception e was raised: the step of the
\* collaborator that raised, parse_query for what orchestrate raises on the
\* interpreter's answer.
StepOfError(e) ==
  CASE e = ErrorText("interpreter") -> "parse_query"
    [] e = ErrorText("airtable") -> "fetch_airtable"
    [] e = ErrorText("apollo") -> "fetch_apollo"
    [] e = ErrorText("exporter") -> "export_csv"
    [] e = ErrorText("calendar") -> "calendar"
    [] e = ErrorText("drafter") -> "email_draft"
    [] e = ErrorText("group_creator") -> "create_project"
    [] OTHER -> "parse_query"
StepStatuses(steps) == {steps[i].status : i \in 1..Len(steps)}
\* C36: no step is ever given the status failed or pending: the step map in
\* memory and every persisted step map hold running and succeeded only; and
\* in the final record of a run that failed because a step raised, that step
\* is the last one inserted and is still running.
C36_StepsRunningOrSucceeded ==
  \A p \in Procs :
    /\ \A i \in 1..Len(marks[p]) : marks[p][i][2] \in {"running", "succeeded"}
    /\ IsSome(run[p]) => StepStatuses(R(p).steps) \subseteq {"running", "succeeded"}
    /\ Persisted(p).kind = "run" =>
         StepStatuses(Persisted(p).run[1].steps) \subseteq {"running", "succeeded"}
    /\ (Returned(p) /\ StepRaised(p)) =>
         LET r == Persisted(p).run[1]
         IN /\ r.status = "failed"
            /\ r.steps[Len(r.steps)] =
                 [name |-> StepOfError(loc[p].e[1]), status |-> "running"]
\* The drafter raised: the failed run's record has email_draft running.
C36_Witness ==
  \E p \in Procs :
    /\ Returned(p) /\ loc[p].e = Some(ErrorText("drafter"))
    /\ Persisted(p).run[1].status = "failed"
    /\ StepStatus(Persisted(p).run[1].steps, "email_draft") = "running"
    /\ StepStatus(Persisted(p).run[1].steps, "export_csv") = "succeeded"

\* A record has a result only when succeeded and an error message only when
\* failed, and the other way round.
ResultIffSucceeded(r) ==
  /\ IsSome(r.result) <=> r.status = "succeeded"
  /\ IsSome(r.error_message) <=> r.status = "failed"
\* C37: in every persisted version of a run record the result payload is
\* present if and only if the status is succeeded and the error message if
\* and only if it is failed; so does every record get_run returned.
C37_ResultIffSucceeded ==
  /\ \A p \in Procs : Persisted(p).kind = "run" => ResultIffSucceeded(Persisted(p).run[1])
  /\ lastRead.got.kind = "run" => ResultIffSucceeded(lastRead.got.run[1])

\* Status t may be read after status s: pending, then running, then one of
\* succeeded and failed.
MayFollow(s, t) ==
  \/ s = t
  \/ s = "pending"
  \/ s = "running" /\ t \in Terminal
\* C38: the statuses read for one run id are monotone: two successive
\* get_run calls for it, two successive versions in the run store, and a
\* status read earlier followed by the status the store holds now, are each
\* pending, running, terminal in that order, a terminal status staying what
\* it is.
C38_MonotoneStatus ==
  /\ [][(/\ lastRead.got.kind = "run" /\ lastRead'.got.kind = "run"
         /\ lastRead'.run_id = lastRead.run_id) =>
          MayFollow(lastRead.got.run[1].status, lastRead'.got.run[1].status)]_vars
  /\ [][\A p \in Procs :
          (Persisted(p).kind = "run" /\ Persisted(p)'.kind = "run") =>
            MayFollow(Persisted(p).run[1].status, Persisted(p)'.run[1].status)]_vars
  /\ [](\A p \in Procs :
         (/\ lastRead.run_id = uuid4(p) /\ lastRead.got.kind = "run"
          /\ Persisted(p).kind = "run") =>
           MayFollow(lastRead.got.run[1].status, Persisted(p).run[1].status))
\* get_run read the run as running, and the store now holds it failed.
C38_Witness ==
  \E p \in Procs :
    /\ lastRead.run_id = uuid4(p) /\ lastRead.got.kind = "run"
    /\ lastRead.got.run[1].status = "running"
    /\ Persisted(p).kind = "run"
    /\ Persisted(p).run[1].status = "failed"

\* C39: the investors of the merge_filter step are the range filter applied
\* to merge(internal, external): a subsequence of internal ++ external, made
\* of records the merge kept only, so that a record dropped as a duplicate
\* is not in the list even when the range filter removed the first-seen
\* record of its key.
C39_DedupeBeforeFilter ==
  \A p \in Procs :
    Merged(p) =>
      /\ Output(p) =
           ApplyTicketFilter(
             _merge_and_dedupe(loc[p].airtable_investors, loc[p].apollo_investors),
             loc[p].parsed[1].ticket_size)
      /\ IsSubsequence(Output(p), Inputs(p))
      /\ Records(Output(p)) \subseteq {Inputs(p)[i] : i \in KeptPositions(p)}
\* The internal record "b" was removed by the range filter, and the external
\* record of the same name, dropped as its duplicate, is not in the list.
C39_Witness ==
  \E p \in Procs :
    /\ Merged(p)
    /\ Len(loc[p].airtable_investors) = 1 /\ Len(loc[p].apollo_investors) = 1
    /\ loc[p].airtable_investors[1].name = <<"b">>
    /\ loc[p].apollo_investors[1].name = <<"b">>
    /\ Len(loc[p].merged) = 1
    /\ Output(p) = <<>>

====
